---- MODULE Spec2Model ----
(***************************************************************************)
(* Model of the chat server (src/unnamed/part_002, the server's main       *)
(* module) and of its text journal (src/server/journal.cpp).               *)
(*                                                                         *)
(* Strings are sequences of one-character strings, so that the journal     *)
(* file is a sequence of characters which commit_transaction formats and   *)
(* next_transaction parses character by character, as the code does.       *)
(***************************************************************************)
EXTENDS Integers, Sequences, FiniteSets, TLC

\* ------------------------------------------------------------------ bounds
\* Largest id a session or a message may hold (guards of the allocating handlers).
MaxId == 3
\* Socket handle values the operating system hands out (1..MaxSock).
MaxSock == 2
\* Connections accepted over one run of the model.
MaxAccepts == 2
\* Process restarts (kill, then start against the same journal file).
MaxRestarts == 1
\* Connections accepted, and open at once, where whole sessions are explored (Spec).
MaxSessionConns == 1
\* Messages kept in the store at once.
MaxMessages == 2
\* Groups kept in the store at once.
MaxGroups == 2
\* Last second of the clock where time passes in long silences (Spec).
MaxTime == 21
\* Last second of the clock where time passes second by second (SpecLive).
MaxTimeLive == 22

\* ------------------------------------------------- program constants
CHAT_MAX_STATUS_LENGTH == 32
CHAT_MAX_MESSAGE_LENGTH == 256
RECIPIENT_TYPE_USER == 0
RECIPIENT_TYPE_GROUP == 1
\* prune_dead_connections: "now - heartbeat > 20"
DEAD_AFTER == 20
\* IchigoVector(): initial capacity of a default-constructed vector
INITIAL_CAPACITY == 16
\* static char buffer[4096]
BUFFER_SIZE == 4096
\* -1: the id of a logged-out user, the connection_fd of an unbound user, and
\* the "not found" result of every find_* function
NONE == -1

SUCCESS == "SUCCESS"
INVALID_REQUEST == "INVALID_REQUEST"
UNAUTHORIZED == "UNAUTHORIZED"

\* ------------------------------------------------------------ characters
Q == "\""
SP == " "
NL == "\n"
\* what fgetc returns at the end of the file
EOF == "EOF"

isspace(c) == c \in {SP, NL}

DigitChars == <<"0", "1", "2", "3", "4", "5", "6", "7", "8", "9">>

isdigit(c) == \E d \in 1..10 : DigitChars[d] = c

DigitValue(c) == (CHOOSE d \in 1..10 : DigitChars[d] = c) - 1

Offline == <<"O", "f", "f", "l", "i", "n", "e">>
Online == <<"O", "n", "l", "i", "n", "e">>

KW_NEW_USER == <<"N", "E", "W", "_", "U", "S", "E", "R">>
KW_NEW_MESSAGE == <<"N", "E", "W", "_", "M", "E", "S", "S", "A", "G", "E">>
KW_DELETE_MESSAGE == <<"D", "E", "L", "E", "T", "E", "_", "M", "E", "S", "S", "A", "G", "E">>
KW_UPDATE_ID == <<"U", "P", "D", "A", "T", "E", "_", "I", "D">>
KW_NEW_GROUP == <<"N", "E", "W", "_", "G", "R", "O", "U", "P">>

\* ------------------------------------------------ journal: formatting
\* printf's %u of a small non-negative number
RECURSIVE FormatU32(_)
FormatU32(n) ==
    IF n < 10 THEN <<DigitChars[n + 1]>>
    ELSE FormatU32(n \div 10) \o <<DigitChars[(n % 10) + 1]>>

Quoted(s) == <<Q>> \o s \o <<Q>>

\* the strncat loop of the NEW_GROUP case: "name" followed by a space, per member
RECURSIVE FormatMembers(_)
FormatMembers(us) ==
    IF us = <<>> THEN <<>>
    ELSE Quoted(Head(us)) \o <<SP>> \o FormatMembers(Tail(us))

\* the text commit_transaction writes for one transaction (after the '\n')
FormatTransaction(t) ==
    CASE t.op = "NEW_USER" ->
            KW_NEW_USER \o <<SP>> \o Quoted(t.username)
      [] t.op = "NEW_MESSAGE" ->
            KW_NEW_MESSAGE \o <<SP>> \o Quoted(t.sender) \o <<SP>>
                \o FormatU32(t.recipient_type) \o <<SP>> \o Quoted(t.recipient)
                \o <<SP>> \o Quoted(t.content)
      [] t.op = "DELETE_MESSAGE" ->
            KW_DELETE_MESSAGE \o <<SP>> \o FormatU32(t.id)
      [] t.op = "UPDATE_ID" ->
            KW_UPDATE_ID \o <<SP>> \o FormatU32(t.id)
      [] t.op = "NEW_GROUP" ->
            KW_NEW_GROUP \o <<SP>> \o Quoted(t.name) \o <<SP>>
                \o FormatU32(Len(t.users)) \o <<SP>> \o FormatMembers(t.users)

\* ---------------------------------------------------- journal: parsing
\* All readers work on the file f and a position p (characters consumed so far).
fgetc(f, p) == IF p < Len(f) THEN f[p + 1] ELSE EOF

\* position after one fgetc (the position does not move at the end of the file)
Advance(f, p) == IF p < Len(f) THEN p + 1 ELSE p

\* position of the first non-whitespace character at or after p
RECURSIVE SkipSpace(_, _)
SkipSpace(f, p) ==
    IF p < Len(f) /\ isspace(f[p + 1]) THEN SkipSpace(f, p + 1) ELSE p

\* position of the first character at or after p that satisfies the stop set,
\* Len(f) when there is none
RECURSIVE ScanTo(_, _, _)
ScanTo(f, p, stops) ==
    IF p < Len(f) /\ f[p + 1] \notin stops THEN ScanTo(f, p + 1, stops) ELSE p

Slice(f, from, to) == [i \in 1..(to - from) |-> f[from + i]]

\* strtol(buffer, &end, 10) on a token: the value of its leading digits;
\* [ok |-> FALSE] when buffer == end (no digit converted)
RECURSIVE DigitsValue(_, _)
DigitsValue(tok, acc) ==
    IF tok = <<>> \/ ~isdigit(Head(tok)) THEN acc
    ELSE DigitsValue(Tail(tok), acc * 10 + DigitValue(Head(tok)))

strtol(tok) ==
    IF tok = <<>> \/ ~isdigit(Head(tok)) THEN [ok |-> FALSE, value |-> 0]
    ELSE [ok |-> TRUE, value |-> DigitsValue(tok, 0)]

\* read_u32: the token from the next non-whitespace character up to whitespace
\* or the end of the file; the terminating character is consumed
read_u32(f, p) ==
    LET s == SkipSpace(f, p)
        e == ScanTo(f, s, {SP, NL})
        n == strtol(Slice(f, s, e))
    IN  [ok |-> s < Len(f) /\ n.ok, value |-> n.value, pos |-> Advance(f, e)]

\* read_quoted_string: next non-whitespace must be '"'; then up to the next '"'
read_quoted_string(f, p) ==
    LET s == SkipSpace(f, p)
        e == ScanTo(f, s + 1, {Q})
    IN  IF fgetc(f, s) # Q \/ e >= Len(f)
        THEN [ok |-> FALSE, value |-> <<>>, pos |-> Len(f)]
        ELSE [ok |-> TRUE, value |-> Slice(f, s + 1, e), pos |-> e + 1]

\* the member loop of the NEW_GROUP case
RECURSIVE ReadMembers(_, _, _, _)
ReadMembers(f, p, count, acc) ==
    IF count = 0 THEN [ok |-> TRUE, value |-> acc, pos |-> p]
    ELSE LET u == read_quoted_string(f, p)
         IN  IF ~u.ok THEN [ok |-> FALSE, value |-> acc, pos |-> u.pos]
             ELSE ReadMembers(f, u.pos, count - 1, Append(acc, u.value))

Fail == [ok |-> FALSE, txn |-> [op |-> "NONE"], pos |-> 0]

\* Journal::next_transaction: the operation word (up to whitespace; a word cut
\* by the end of the file matches no operation), then its fields
next_transaction(f, p) ==
    LET s == SkipSpace(f, p)
        e == ScanTo(f, s, {SP, NL})
        word == IF e < Len(f) THEN Slice(f, s, e) ELSE <<EOF>>
        a == Advance(f, e)
    IN  CASE word = KW_NEW_USER ->
                LET u == read_quoted_string(f, a)
                IN  IF ~u.ok THEN Fail
                    ELSE [ok |-> TRUE, pos |-> u.pos,
                          txn |-> [op |-> "NEW_USER", username |-> u.value]]
          [] word = KW_UPDATE_ID ->
                LET n == read_u32(f, a)
                IN  IF ~n.ok THEN Fail
                    ELSE [ok |-> TRUE, pos |-> n.pos,
                          txn |-> [op |-> "UPDATE_ID", id |-> n.value]]
          [] word = KW_NEW_MESSAGE ->
                LET sender == read_quoted_string(f, a)
                    type == read_u32(f, sender.pos)
                    recipient == read_quoted_string(f, type.pos)
                    content == read_quoted_string(f, recipient.pos)
                IN  IF ~sender.ok \/ ~type.ok \/ ~recipient.ok \/ ~content.ok THEN Fail
                    ELSE [ok |-> TRUE, pos |-> content.pos,
                          txn |-> [op |-> "NEW_MESSAGE", sender |-> sender.value,
                                   recipient_type |-> type.value,
                                   recipient |-> recipient.value,
                                   content |-> content.value]]
          [] word = KW_DELETE_MESSAGE ->
                LET n == read_u32(f, a)
                IN  IF ~n.ok THEN Fail
                    ELSE [ok |-> TRUE, pos |-> n.pos,
                          txn |-> [op |-> "DELETE_MESSAGE", id |-> n.value]]
          [] word = KW_NEW_GROUP ->
                LET name == read_quoted_string(f, a)
                    count == read_u32(f, name.pos)
                    members == ReadMembers(f, count.pos, count.value, <<>>)
                IN  IF ~name.ok \/ ~count.ok \/ ~members.ok THEN Fail
                    ELSE [ok |-> TRUE, pos |-> members.pos,
                          txn |-> [op |-> "NEW_GROUP", name |-> name.value,
                                   users |-> members.value]]
          [] OTHER -> Fail

\* Journal::has_more_transactions at position p (invalid_file is tested by the
\* callers): any non-whitespace character left
has_more_transactions(f, p) == SkipSpace(f, p) < Len(f)

\* the text commit_transaction puts at position p of the file
WriteAt(f, p, text) ==
    SubSeq(f, 1, p) \o text \o SubSeq(f, p + Len(text) + 1, Len(f))

\* commit_transaction without its test of invalid_file
commit_transaction_when_invalid(j, t) ==
    IF has_more_transactions(j.file, j.pos) THEN [j EXCEPT !.abort = TRUE]
    ELSE LET p == SkipSpace(j.file, j.pos)
             text == <<NL>> \o FormatTransaction(t)
         IN  [j EXCEPT !.file = WriteAt(j.file, p, text), !.pos = p + Len(text)]

\* Journal::commit_transaction on the journal j = [file, pos, invalid, abort]:
\* nothing when the file is invalid; assert(!has_more_transactions()) (which
\* reads up to the end of the file); then '\n' and the formatted transaction
commit_transaction(j, t) ==
    IF j.invalid THEN j
    ELSE IF has_more_transactions(j.file, j.pos) THEN [j EXCEPT !.abort = TRUE]
    ELSE LET p == SkipSpace(j.file, j.pos)
             text == <<NL>> \o FormatTransaction(t)
         IN  [j EXCEPT !.file = WriteAt(j.file, p, text), !.pos = p + Len(text)]

\* ------------------------------------------------------------ the state
VARIABLES
    phase,                      \* position of the process: "recovering" (replay loop of
                                \* ChatServer::init), "recovered" (replay over, sockets not
                                \* yet set up), "running" (event loop), "aborted" (an
                                \* assert of the replay fired), "crashed" (undefined
                                \* behaviour ended the process)
    next_id,                    \* static i32 next_id
    users,                      \* static IchigoVector<ServerUser> users
    users_capacity,             \* users.m_capacity
    users_gen,                  \* which allocation users.m_data is (expand() makes a new one)
    groups,                     \* static IchigoVector<Group> groups
    messages,                   \* static IchigoVector<Message> messages
    poll_connection_fds,        \* static IchigoVector<pollfd> poll_connection_fds (the fds)
    connection_heartbeat_times, \* static IchigoVector<u32> connection_heartbeat_times
    journal_file,               \* the content of default.chatjournal
    journal_pos,                \* the file position of journal_file
    invalid_file,               \* static bool invalid_file
    now,                        \* time(nullptr)
    reply,                      \* what the last handler sent on its socket
    conn_serial,                \* history: which accepted connection each table entry is
    accepts,                    \* history: connections accepted so far
    login_conn,                 \* history: per user, the connection its last LOGIN came on
    restarts,                   \* history: process restarts so far
    prev                        \* history: the store of the previous process when it ended

storeVars == <<next_id, users, users_capacity, users_gen, groups, messages, login_conn>>
journalVars == <<journal_file, journal_pos, invalid_file>>
connVars == <<poll_connection_fds, connection_heartbeat_times, conn_serial>>
envVars == <<now, accepts, restarts, prev>>
vars == <<phase, storeVars, journalVars, connVars, envVars, reply>>

\* ------------------------------------------------------------ inputs
A == <<"a">>
B == <<"b">>
AQ == <<"a", Q>>
G == <<"g">>
X == <<"x">>

\* session ids clients send: every value the counter can take, 0 and -1
IdInputs == NONE..MaxId
\* the recipient_type byte clients send
RecipientTypes == {RECIPIENT_TYPE_USER, RECIPIENT_TYPE_GROUP, 2}
Sockets == 1..MaxSock

\* the users an earlier run registered: one fewer than the users vector holds
\* before it reallocates
SeedNames ==
    <<<<"c">>, <<"d">>, <<"e">>, <<"f">>, <<"h">>, <<"i">>, <<"j">>, <<"k">>,
      <<"l">>, <<"m">>, <<"n">>, <<"o">>, <<"p">>, <<"q">>, <<"r">>>>

RECURSIVE SeedJournal(_)
SeedJournal(names) ==
    IF names = <<>> THEN <<>>
    ELSE <<NL>> \o FormatTransaction([op |-> "NEW_USER", username |-> Head(names)])
            \o SeedJournal(Tail(names))

\* ------------------------------------------------------------ the store
J == [file |-> journal_file, pos |-> journal_pos, invalid |-> invalid_file,
      abort |-> FALSE]

\* the journal after a handler's commits; the assert of commit_transaction ends
\* the process
SetJournal(j) ==
    /\ journal_file' = j.file
    /\ journal_pos' = j.pos
    /\ invalid_file' = j.invalid
    /\ phase' = IF j.abort THEN "crashed" ELSE phase

NoCommit == UNCHANGED <<journal_file, journal_pos, invalid_file, phase>>

\* the loop of every find_*: the least of the indices that match, -1 when none does
FirstIndex(hits) ==
    IF hits = {} THEN NONE ELSE CHOOSE i \in hits : \A k \in hits : i <= k

find_user_index_by_name(us, name) ==
    FirstIndex({i \in 1..Len(us) : us[i].name = name})

find_group_index_by_name(gs, name) ==
    FirstIndex({i \in 1..Len(gs) : gs[i].name = name})

find_user_index_by_id(us, id) ==
    FirstIndex({i \in 1..Len(us) : us[i].id = id})

find_message_index_by_id(ms, id) ==
    FirstIndex({i \in 1..Len(ms) : ms[i].id = id})

find_user_index_by_socket_fd(us, socket) ==
    FirstIndex({i \in 1..Len(us) : us[i].connection_fd = socket})

find_socket_index(fds, socket) ==
    FirstIndex({i \in 1..Len(fds) : fds[i] = socket})

\* IchigoVector::remove
Remove(s, i) == [k \in 1..(Len(s) - 1) |-> IF k < i THEN s[k] ELSE s[k + 1]]

\* ServerUser(name): a logged-out user
ServerUser(name) ==
    [name |-> name, status |-> Offline, logged_in |-> FALSE, id |-> NONE,
     connection_fd |-> NONE]

\* users.append(u): IchigoVector::append, with expand() when the vector is full
UsersAppend(us, cap, gen, u) ==
    [users |-> Append(us, u),
     capacity |-> IF Len(us) = cap THEN cap * 2 ELSE cap,
     gen |-> IF Len(us) = cap THEN gen + 1 ELSE gen]

\* &users.at(i): a pointer into the current allocation of the users vector
UserPtr(gen, i) == [gen |-> gen, idx |-> i]

\* a pointer into an allocation expand() has deleted
Dangling(ptr) == ptr.gen # users_gen

\* Message with the sender stored as its recipient
Message_to_sender(content, recipient, sender, id, direct) ==
    [content |-> content, recipient |-> sender, sender |-> sender, id |-> id,
     direct |-> direct]

\* Message(content, recipient, sender, id); direct is history: whether the
\* message was addressed to a user (recipient_type 0) rather than fanned out
Message(content, recipient, sender, id, direct) ==
    [content |-> content, recipient |-> recipient, sender |-> sender, id |-> id,
     direct |-> direct]

\* get_next_id without its ++next_id: the counter is journaled and returned as it is
get_next_id_no_increment(nid, j) ==
    [id |-> nid,
     j |-> commit_transaction(j, [op |-> "UPDATE_ID", id |-> nid])]

\* get_next_id on the counter value nid and the journal j
get_next_id(nid, j) ==
    [id |-> nid + 1,
     j |-> commit_transaction(j, [op |-> "UPDATE_ID", id |-> nid + 1])]

\* the check every session-bound handler makes on the id it received
authenticated(us, id, socket) ==
    LET index == find_user_index_by_id(us, id)
    IN  IF index = NONE \/ ~us[index].logged_in \/ us[index].connection_fd # socket
        THEN NONE ELSE index

Handling(i) ==
    /\ phase = "running"
    /\ i \in 1..Len(poll_connection_fds)


\* ---------------------------------------------------- session handlers
\* Every handler acts on entry i of the connection table. drop names the read
\* that returned -1 (RETURN_IF_DROPPED), 0 when every read delivered. reply is
\* the opcode the handler serves, then what the handler sent, in order.

\* register_user: REGISTER
register_user(i, name, drop) ==
    /\ Handling(i)
    /\ drop \in 0..1
    /\ IF drop = 1
       THEN /\ reply' = <<"REGISTER">>
            /\ UNCHANGED storeVars
            /\ NoCommit
       ELSE IF find_user_index_by_name(users, name) # NONE
       THEN /\ reply' = <<"REGISTER", INVALID_REQUEST>>
            /\ UNCHANGED storeVars
            /\ NoCommit
       ELSE LET j == commit_transaction(J, [op |-> "NEW_USER", username |-> name])
                v == UsersAppend(users, users_capacity, users_gen, ServerUser(name))
            IN  /\ SetJournal(j)
                /\ users' = v.users
                /\ users_capacity' = v.capacity
                /\ users_gen' = v.gen
                /\ login_conn' = Append(login_conn, 0)
                /\ reply' = <<"REGISTER", SUCCESS>>
                /\ UNCHANGED <<next_id, groups, messages>>
    /\ UNCHANGED <<connVars, envVars>>

\* step 2 of login with only the lookup: a user who is logged in is let in again
login_refused_if_unknown(us, index) == index = NONE

\* step 2 of login: the name resolves to no user, or to one who is logged in
login_refused(us, index) == index = NONE \/ us[index].logged_in

\* login: LOGIN
login(i, name, drop) ==
    LET socket == poll_connection_fds[i]
        index == find_user_index_by_name(users, name)
    IN  /\ Handling(i)
        /\ drop \in 0..1
        /\ IF drop = 1
           THEN /\ reply' = <<"LOGIN">>
                /\ UNCHANGED storeVars
                /\ NoCommit
           ELSE IF login_refused(users, index)
           THEN /\ reply' = <<"LOGIN", NONE, INVALID_REQUEST>>
                /\ UNCHANGED storeVars
                /\ NoCommit
           ELSE LET g == get_next_id(next_id, J)
                IN  /\ next_id < MaxId
                    /\ next_id' = g.id
                    /\ SetJournal(g.j)
                    /\ users' = [users EXCEPT ![index] =
                                    [@ EXCEPT !.status = Online, !.logged_in = TRUE,
                                              !.id = g.id, !.connection_fd = socket]]
                    /\ login_conn' = [login_conn EXCEPT ![index] = conn_serial[i]]
                    /\ reply' = <<"LOGIN", g.id, SUCCESS>>
                    /\ UNCHANGED <<users_capacity, users_gen, groups, messages>>
        /\ UNCHANGED <<connVars, envVars>>

\* the writes of logout without set_logged_in(false)
logged_out_but_logged_in(u) == [u EXCEPT !.status = Offline, !.id = NONE]

\* the writes of logout to the user: Offline, not logged in, no session id
logged_out(u) == [u EXCEPT !.status = Offline, !.logged_in = FALSE, !.id = NONE]

\* logout: LOGOUT
logout(i, id, drop) ==
    LET socket == poll_connection_fds[i]
        index == authenticated(users, id, socket)
    IN  /\ Handling(i)
        /\ drop \in 0..1
        /\ IF drop = 1
           THEN /\ reply' = <<"LOGOUT">>
                /\ UNCHANGED users
           ELSE IF index = NONE
           THEN /\ reply' = <<"LOGOUT", INVALID_REQUEST>>
                /\ UNCHANGED users
           ELSE /\ users' = [users EXCEPT ![index] = logged_out(@)]
                /\ reply' = <<"LOGOUT", SUCCESS>>
        /\ UNCHANGED <<phase, next_id, users_capacity, users_gen, groups, messages,
                       login_conn, journalVars, connVars, envVars>>

\* step 4 of set_status without "n == 0"
status_refused_if_long(n) == n > CHAT_MAX_STATUS_LENGTH

\* step 4 of set_status: the payload is empty or too long
status_refused(n) == n = 0 \/ n > CHAT_MAX_STATUS_LENGTH

\* set_status: SET_STATUS
set_status(i, id, status, drop) ==
    LET socket == poll_connection_fds[i]
        index == authenticated(users, id, socket)
        n == Len(status)
    IN  /\ Handling(i)
        /\ drop \in 0..2
        /\ IF drop = 1
           THEN /\ reply' = <<"SET_STATUS">>
                /\ UNCHANGED users
           ELSE IF index = NONE
           THEN /\ reply' = <<"SET_STATUS", INVALID_REQUEST>>
                /\ UNCHANGED users
           ELSE IF drop = 2
           THEN /\ reply' = <<"SET_STATUS", SUCCESS>>
                /\ UNCHANGED users
           ELSE IF status_refused(n)
           THEN /\ reply' = <<"SET_STATUS", SUCCESS, INVALID_REQUEST>>
                /\ UNCHANGED users
           ELSE /\ users' = [users EXCEPT ![index].status = status]
                /\ reply' = <<"SET_STATUS", SUCCESS, SUCCESS>>
        /\ UNCHANGED <<phase, next_id, users_capacity, users_gen, groups, messages,
                       login_conn, journalVars, connVars, envVars>>

\* what get_users sends in steps 5 and 6: the count, then name and status per user
UserDirectory(us) == <<Len(us), [k \in 1..Len(us) |-> <<us[k].name, us[k].status>>]>>

\* what get_groups sends in steps 5 and 6
GroupDirectory(gs) == <<Len(gs), [k \in 1..Len(gs) |-> <<gs[k].name, Len(gs[k].users), gs[k].users>>]>>

\* the reply of get_users and get_groups to the id received: the checks of
\* steps 2 and 3, then the directory
DirectoryReply(us, id, directory) ==
    LET user_index == find_user_index_by_id(us, id)
    IN  IF user_index = NONE THEN <<INVALID_REQUEST>>
        ELSE IF ~us[user_index].logged_in THEN <<UNAUTHORIZED>>
        ELSE <<SUCCESS>> \o directory \o <<SUCCESS>>

\* get_users: GET_USERS (the last_heartbeat_time it sets is read nowhere)
get_users(i, id, drop) ==
    /\ Handling(i)
    /\ drop \in 0..1
    /\ reply' = <<"GET_USERS">>
                 \o IF drop = 1 THEN <<>>
                    ELSE DirectoryReply(users, id, UserDirectory(users))
    /\ UNCHANGED <<phase, storeVars, journalVars, connVars, envVars>>

\* get_groups: GET_GROUPS
get_groups(i, id, drop) ==
    /\ Handling(i)
    /\ drop \in 0..1
    /\ reply' = <<"GET_GROUPS">>
                 \o IF drop = 1 THEN <<>>
                    ELSE DirectoryReply(users, id, GroupDirectory(groups))
    /\ UNCHANGED <<phase, storeVars, journalVars, connVars, envVars>>

\* ------------------------------------------------- connections, liveness
\* the accept branch of the event loop: the new handle is one no open socket
\* has; max bounds the connections accepted over the run
Accept(fd, max) ==
    /\ phase = "running"
    /\ accepts < max
    /\ \A k \in 1..Len(poll_connection_fds) : poll_connection_fds[k] # fd
    /\ poll_connection_fds' = Append(poll_connection_fds, fd)
    /\ connection_heartbeat_times' = Append(connection_heartbeat_times, now)
    /\ conn_serial' = Append(conn_serial, accepts + 1)
    /\ accepts' = accepts + 1
    /\ UNCHANGED <<phase, storeVars, journalVars, now, restarts, prev, reply>>

\* goodbye that removes the last entry of the heartbeat table
goodbye_tables_last_time(c, socket) ==
    LET k == find_socket_index(c.fds, socket)
    IN  IF k = NONE THEN c
        ELSE [fds |-> Remove(c.fds, k), times |-> Remove(c.times, Len(c.times)),
              serials |-> Remove(c.serials, k)]

\* goodbye(socket) on the connection tables c = [fds, times, serials]: the
\* entry of the socket is removed from both vectors, the socket is closed
goodbye_tables(c, socket) ==
    LET k == find_socket_index(c.fds, socket)
    IN  IF k = NONE THEN c
        ELSE [fds |-> Remove(c.fds, k), times |-> Remove(c.times, k),
              serials |-> Remove(c.serials, k)]

Tables == [fds |-> poll_connection_fds, times |-> connection_heartbeat_times,
           serials |-> conn_serial]

SetTables(c) ==
    /\ poll_connection_fds' = c.fds
    /\ connection_heartbeat_times' = c.times
    /\ conn_serial' = c.serials

\* goodbye: GOODBYE
goodbye(i) ==
    /\ Handling(i)
    /\ SetTables(goodbye_tables(Tables, poll_connection_fds[i]))
    /\ reply' = <<"GOODBYE">>
    /\ UNCHANGED <<phase, storeVars, journalVars, envVars>>

\* heartbeat that stamps the first entry of the table
heartbeat_first_entry(i) ==
    /\ Handling(i)
    /\ connection_heartbeat_times' = [connection_heartbeat_times EXCEPT ![1] = now]
    /\ reply' = <<"HEARTBEAT", SUCCESS>>
    /\ UNCHANGED <<phase, storeVars, journalVars, poll_connection_fds, conn_serial,
                   envVars>>

\* heartbeat: HEARTBEAT
heartbeat(i) ==
    LET k == find_socket_index(poll_connection_fds, poll_connection_fds[i])
    IN  /\ Handling(i)
        /\ IF k = NONE
           THEN /\ reply' = <<"HEARTBEAT", INVALID_REQUEST>>
                /\ UNCHANGED connection_heartbeat_times
           ELSE /\ connection_heartbeat_times' = [connection_heartbeat_times EXCEPT ![k] = now]
                /\ reply' = <<"HEARTBEAT", SUCCESS>>
        /\ UNCHANGED <<phase, storeVars, journalVars, poll_connection_fds, conn_serial,
                       envVars>>

\* the test of prune_dead_connections with >= for >
is_dead_at_limit(t, heartbeat_time) == t - heartbeat_time >= DEAD_AFTER

\* the test of prune_dead_connections on one heartbeat time
is_dead(t, heartbeat_time) == t - heartbeat_time > DEAD_AFTER

\* an eviction that leaves the status of the user as it is
prune_user_keeps_status(us, socket) ==
    LET user_index == find_user_index_by_socket_fd(us, socket)
    IN  IF user_index = NONE THEN us
        ELSE [us EXCEPT ![user_index] =
                 [@ EXCEPT !.logged_in = FALSE, !.connection_fd = NONE]]

\* what prune_dead_connections does to the user bound to a dead socket
prune_user(us, socket) ==
    LET user_index == find_user_index_by_socket_fd(us, socket)
    IN  IF user_index = NONE THEN us
        ELSE [us EXCEPT ![user_index] =
                 [@ EXCEPT !.logged_in = FALSE, !.status = Offline,
                           !.connection_fd = NONE]]

\* the loop of prune_dead_connections from index i (1-based) on the state
\* s = [users, c]: after goodbye removed entry i the loop goes on at i + 1
RECURSIVE prune_loop(_, _, _)
prune_loop(s, i, t) ==
    IF i > Len(s.c.times) THEN s
    ELSE IF is_dead(t, s.c.times[i])
    THEN prune_loop([users |-> prune_user(s.users, s.c.fds[i]),
                     c |-> goodbye_tables(s.c, s.c.fds[i])], i + 1, t)
    ELSE prune_loop(s, i + 1, t)

\* prune_dead_connections, run at the end of every iteration of the event loop
prune_dead_connections ==
    LET s == prune_loop([users |-> users, c |-> Tables], 1, now)
    IN  /\ phase = "running"
        /\ users' = s.users
        /\ SetTables(s.c)
        /\ UNCHANGED <<phase, next_id, users_capacity, users_gen, groups, messages,
                       login_conn, journalVars, envVars, reply>>

\* the clock of time(nullptr) advances by d seconds
Tick(d, max) ==
    /\ now + d <= max
    /\ now' = now + d
    /\ UNCHANGED <<phase, storeVars, journalVars, connVars, accepts, restarts, prev,
                   reply>>

\* the member loop of register_group with "failed = user_index == -1": only
\* the last name read decides
unresolved_last(us, members) ==
    members # <<>> /\ find_user_index_by_name(us, members[Len(members)]) = NONE

\* the member loop of register_group: failed is set when a name resolves to no user
unresolved(us, members) ==
    \E k \in 1..Len(members) : find_user_index_by_name(us, members[k]) = NONE

\* ---------------------------------------------------- groups, messages
\* register_group: REGISTER_GROUP. drop 1: the name did not arrive; drop 2: the
\* member count or a member did not arrive
register_group(i, name, members, drop) ==
    LET failed == unresolved(users, members)
        j == commit_transaction(J, [op |-> "NEW_GROUP", name |-> name, users |-> members])
    IN  /\ Handling(i)
        /\ drop \in 0..2
        /\ IF drop = 1
           THEN /\ reply' = <<"REGISTER_GROUP">>
                /\ UNCHANGED groups
                /\ NoCommit
           ELSE IF find_group_index_by_name(groups, name) # NONE
           THEN /\ reply' = <<"REGISTER_GROUP", INVALID_REQUEST>>
                /\ UNCHANGED groups
                /\ NoCommit
           ELSE IF drop = 2
           THEN /\ reply' = <<"REGISTER_GROUP", SUCCESS>>
                /\ UNCHANGED groups
                /\ NoCommit
           ELSE IF failed
           THEN /\ reply' = <<"REGISTER_GROUP", SUCCESS, INVALID_REQUEST>>
                /\ UNCHANGED groups
                /\ NoCommit
           ELSE /\ Len(groups) < MaxGroups
                /\ SetJournal(j)
                /\ groups' = Append(groups, [name |-> name, users |-> members])
                /\ reply' = <<"REGISTER_GROUP", SUCCESS, SUCCESS>>
        /\ UNCHANGED <<next_id, users, users_capacity, users_gen, messages, login_conn,
                       connVars, envVars>>

\* "buffer[n] = 0" after a read of n bytes that started at buffer. For
\* n < BUFFER_SIZE the byte is inside buffer. For n = BUFFER_SIZE it is the byte
\* after buffer, where the build may have placed the low byte of next_id (the
\* static defined right after buffer) or nothing the program reads.
terminated(nid, n) ==
    IF n < BUFFER_SIZE THEN {nid} ELSE {nid, nid - (nid % 256)}

\* the fan-out loop of send_message over the members of a group, on
\* s = [next_id, j, messages, message_id, abort]
RECURSIVE fan_out(_, _, _, _)
fan_out(s, members, content, sender) ==
    IF members = <<>> \/ s.abort THEN s
    ELSE LET recipient_index == find_user_index_by_name(users, Head(members))
             g == get_next_id(s.next_id, s.j)
         IN  IF recipient_index = NONE THEN [s EXCEPT !.abort = TRUE]
             ELSE fan_out([next_id |-> g.id, j |-> g.j, message_id |-> g.id,
                           abort |-> FALSE,
                           messages |-> Append(s.messages,
                               Message(content, UserPtr(users_gen, recipient_index),
                                       sender, s.message_id, FALSE))],
                          Tail(members), content, sender)

\* the messages send_message creates (steps after step 6), on the sender index
create_messages(index, recipient_type, recipient_name, recipient_index, content) ==
    LET sender == UserPtr(users_gen, index)
        g == get_next_id(next_id, J)
        new_message == [op |-> "NEW_MESSAGE", sender |-> users[index].name,
                        recipient |-> recipient_name,
                        recipient_type |-> recipient_type, content |-> content]
        j == commit_transaction(g.j, new_message)
    IN  IF recipient_type = RECIPIENT_TYPE_USER
        THEN [next_id |-> g.id, j |-> j, message_id |-> g.id, abort |-> FALSE,
              messages |-> Append(messages,
                  Message(content, UserPtr(users_gen, recipient_index), sender, g.id,
                          TRUE))]
        ELSE fan_out([next_id |-> g.id, j |-> j, message_id |-> g.id, abort |-> FALSE,
                      messages |-> messages],
                     groups[recipient_index].users, content, sender)

\* send_message: SEND_MESSAGE. drop 1: the id did not arrive; drop 2: a later
\* read did not arrive
send_message(i, id, recipient_type, recipient_name, content, drop) ==
    LET socket == poll_connection_fds[i]
        index == authenticated(users, id, socket)
        recipient_index ==
            IF recipient_type = RECIPIENT_TYPE_USER
            THEN find_user_index_by_name(users, recipient_name)
            ELSE find_group_index_by_name(groups, recipient_name)
        s == create_messages(index, recipient_type, recipient_name, recipient_index,
                             content)
        last_message_id == IF recipient_type = RECIPIENT_TYPE_USER THEN s.next_id
                           ELSE s.next_id - 1
    IN  /\ Handling(i)
        /\ drop \in 0..2
        /\ IF drop = 1
           THEN /\ reply' = <<"SEND_MESSAGE">>
                /\ UNCHANGED <<next_id, messages>>
                /\ NoCommit
           ELSE IF index = NONE
           THEN /\ reply' = <<"SEND_MESSAGE", INVALID_REQUEST>>
                /\ UNCHANGED <<next_id, messages>>
                /\ NoCommit
           ELSE IF drop = 2
           THEN /\ reply' = <<"SEND_MESSAGE", SUCCESS>>
                /\ UNCHANGED <<next_id, messages>>
                /\ NoCommit
           ELSE IF recipient_index = NONE \/ Len(content) > CHAT_MAX_MESSAGE_LENGTH
           THEN /\ reply' = <<"SEND_MESSAGE", SUCCESS, INVALID_REQUEST>>
                /\ next_id' \in terminated(next_id, Len(recipient_name))
                                 \cup terminated(next_id, Len(content))
                /\ UNCHANGED messages
                /\ NoCommit
           ELSE /\ Len(recipient_name) < BUFFER_SIZE
                /\ last_message_id <= MaxId
                /\ Len(s.messages) <= MaxMessages
                /\ next_id' = s.next_id
                /\ messages' = s.messages
                /\ SetJournal([s.j EXCEPT !.abort = s.j.abort \/ s.abort])
                /\ reply' = IF s.abort \/ s.j.abort THEN <<"SEND_MESSAGE", SUCCESS>>
                            ELSE <<"SEND_MESSAGE", SUCCESS, SUCCESS>>
        /\ UNCHANGED <<users, users_capacity, users_gen, groups, login_conn, connVars,
                       envVars>>

\* delete_message: DELETE_MESSAGE. The recipient of the message is read through
\* the pointer the message holds: when expand() has deleted the allocation it
\* points into, the comparison of step 5 can come out either way, or the read
\* ends the process (outcome "match", "differ" or "crash").
delete_message(i, id, message_id, drop, outcome) ==
    LET socket == poll_connection_fds[i]
        user_index == authenticated(users, id, socket)
        message_index == find_message_index_by_id(messages, message_id)
        recipient == messages[message_index].recipient
        j == commit_transaction(J, [op |-> "DELETE_MESSAGE", id |-> message_id])
    IN  /\ Handling(i)
        /\ drop \in 0..2
        /\ outcome \in {"match", "differ", "crash"}
        /\ IF drop = 1
           THEN /\ reply' = <<"DELETE_MESSAGE">>
                /\ UNCHANGED messages
                /\ NoCommit
           ELSE IF user_index = NONE
           THEN /\ reply' = <<"DELETE_MESSAGE", INVALID_REQUEST>>
                /\ UNCHANGED messages
                /\ NoCommit
           ELSE IF drop = 2
           THEN /\ reply' = <<"DELETE_MESSAGE", SUCCESS>>
                /\ UNCHANGED messages
                /\ NoCommit
           ELSE IF message_index = NONE
           THEN /\ reply' = <<"DELETE_MESSAGE", SUCCESS, INVALID_REQUEST>>
                /\ UNCHANGED messages
                /\ NoCommit
           ELSE /\ IF Dangling(recipient) THEN TRUE
                   ELSE outcome = IF users[recipient.idx].name = users[user_index].name
                                  THEN "match" ELSE "differ"
                /\ CASE outcome = "match" ->
                            /\ SetJournal(j)
                            /\ messages' = Remove(messages, message_index)
                            /\ reply' = IF j.abort THEN <<"DELETE_MESSAGE", SUCCESS>>
                                        ELSE <<"DELETE_MESSAGE", SUCCESS, SUCCESS>>
                     [] outcome = "differ" ->
                            /\ reply' = <<"DELETE_MESSAGE", SUCCESS, UNAUTHORIZED>>
                            /\ UNCHANGED messages
                            /\ NoCommit
                     [] outcome = "crash" ->
                            /\ reply' = <<"DELETE_MESSAGE", SUCCESS>>
                            /\ phase' = "crashed"
                            /\ UNCHANGED <<messages, journalVars>>
        /\ UNCHANGED <<next_id, users, users_capacity, users_gen, groups, login_conn,
                       connVars, envVars>>

\* the messages get_messages gathers for the user at index: those whose
\* recipient()->usernames() holds the user's name. A message whose recipient
\* pointer dangles is gathered or not as the read through it falls out: stale
\* is the set of such messages that are gathered.
messages_for_user(ms, index, stale) ==
    LET keep(k) == IF Dangling(ms[k].recipient) THEN k \in stale
                   ELSE users[ms[k].recipient.idx].name = users[index].name
    IN  SelectSeq([k \in 1..Len(ms) |-> k], keep)

\* what get_messages sends in steps 4 and 5: the count, then id, sender name and
\* content per message
Inbox(ms, picked) ==
    <<Len(picked), [k \in 1..Len(picked) |->
                       <<ms[picked[k]].id, users[ms[picked[k]].sender.idx].name,
                         ms[picked[k]].content>>]>>

DanglingMessages == {k \in 1..Len(messages) : Dangling(messages[k].recipient)}

\* get_messages: GET_MESSAGES. crash: a read through a dangling pointer ended
\* the process.
get_messages(i, id, drop, stale, crash) ==
    LET socket == poll_connection_fds[i]
        index == authenticated(users, id, socket)
    IN  /\ Handling(i)
        /\ drop \in 0..1
        /\ stale \subseteq DanglingMessages
        /\ crash \in BOOLEAN
        /\ IF drop = 1
           THEN reply' = <<"GET_MESSAGES">> /\ UNCHANGED phase
           ELSE IF index = NONE
           THEN reply' = <<"GET_MESSAGES", INVALID_REQUEST>> /\ UNCHANGED phase
           ELSE IF crash
           THEN /\ DanglingMessages # {}
                /\ reply' = <<"GET_MESSAGES", SUCCESS>>
                /\ phase' = "crashed"
           ELSE /\ reply' = <<"GET_MESSAGES", SUCCESS>>
                              \o Inbox(messages, messages_for_user(messages, index, stale))
                              \o <<SUCCESS>>
                /\ UNCHANGED phase
        /\ UNCHANGED <<storeVars, journalVars, connVars, envVars>>

\* ------------------------------------------------------------ recovery
\* the group branch of the NEW_MESSAGE case of the replay, on
\* s = [next_id, messages, gen, abort]: one message per member, next_id++
RECURSIVE replay_fan_out(_, _, _, _)
replay_fan_out(s, members, content, sender_index) ==
    IF members = <<>> \/ s.abort THEN s
    ELSE LET user_index == find_user_index_by_name(users, Head(members))
         IN  IF user_index = NONE THEN [s EXCEPT !.abort = TRUE]
             ELSE replay_fan_out(
                      [s EXCEPT !.next_id = @ + 1,
                                !.messages = Append(@,
                                    Message(content, UserPtr(users_gen, user_index),
                                            UserPtr(users_gen, sender_index),
                                            s.next_id, FALSE))],
                      Tail(members), content, sender_index)

\* the NEW_MESSAGE case of the replay switch with a group branch that stores
\* the message for the first member only
replay_new_message_first_member(t) ==
    LET sender_index == find_user_index_by_name(users, t.sender)
        recipient_index == find_user_index_by_name(users, t.recipient)
        group_index == find_group_index_by_name(groups, t.recipient)
        s == [next_id |-> next_id, messages |-> messages, abort |-> FALSE]
    IN  IF sender_index = NONE THEN [s EXCEPT !.abort = TRUE]
        ELSE IF t.recipient_type = RECIPIENT_TYPE_USER
        THEN IF recipient_index = NONE THEN [s EXCEPT !.abort = TRUE]
             ELSE [s EXCEPT !.messages = Append(@,
                       Message(t.content, UserPtr(users_gen, recipient_index),
                               UserPtr(users_gen, sender_index), next_id, TRUE))]
        ELSE IF t.recipient_type = RECIPIENT_TYPE_GROUP
        THEN IF group_index = NONE THEN [s EXCEPT !.abort = TRUE]
             ELSE replay_fan_out(s, SubSeq(groups[group_index].users, 1, 1), t.content,
                                 sender_index)
        ELSE s

\* the NEW_MESSAGE case of the replay switch
replay_new_message(t) ==
    LET sender_index == find_user_index_by_name(users, t.sender)
        recipient_index == find_user_index_by_name(users, t.recipient)
        group_index == find_group_index_by_name(groups, t.recipient)
        s == [next_id |-> next_id, messages |-> messages, abort |-> FALSE]
    IN  IF sender_index = NONE THEN [s EXCEPT !.abort = TRUE]
        ELSE IF t.recipient_type = RECIPIENT_TYPE_USER
        THEN IF recipient_index = NONE THEN [s EXCEPT !.abort = TRUE]
             ELSE [s EXCEPT !.messages = Append(@,
                       Message(t.content, UserPtr(users_gen, recipient_index),
                               UserPtr(users_gen, sender_index), next_id, TRUE))]
        ELSE IF t.recipient_type = RECIPIENT_TYPE_GROUP
        THEN IF group_index = NONE THEN [s EXCEPT !.abort = TRUE]
             ELSE replay_fan_out(s, groups[group_index].users, t.content, sender_index)
        ELSE s

\* the value the UPDATE_ID case of the replay switch gives next_id
replay_update_id(current, id) == id

\* one iteration of the replay loop of ChatServer::init that reads a transaction
RecoverStep ==
    LET r == next_transaction(journal_file, journal_pos)
        t == r.txn
        v == UsersAppend(users, users_capacity, users_gen, ServerUser(t.username))
        m == replay_new_message(t)
        message_index == find_message_index_by_id(messages, t.id)
    IN  /\ phase = "recovering"
        /\ has_more_transactions(journal_file, journal_pos)
        /\ r.ok
        /\ journal_pos' = r.pos
        /\ CASE t.op = "NEW_USER" ->
                    /\ users' = v.users
                    /\ users_capacity' = v.capacity
                    /\ users_gen' = v.gen
                    /\ login_conn' = Append(login_conn, 0)
                    /\ UNCHANGED <<phase, next_id, groups, messages>>
             [] t.op = "NEW_MESSAGE" ->
                    /\ phase' = IF m.abort THEN "aborted" ELSE phase
                    /\ next_id' = m.next_id
                    /\ messages' = m.messages
                    /\ UNCHANGED <<users, users_capacity, users_gen, groups, login_conn>>
             [] t.op = "DELETE_MESSAGE" ->
                    /\ phase' = IF message_index = NONE THEN "aborted" ELSE phase
                    /\ messages' = IF message_index = NONE THEN messages
                                   ELSE Remove(messages, message_index)
                    /\ UNCHANGED <<next_id, users, users_capacity, users_gen, groups,
                                   login_conn>>
             [] t.op = "UPDATE_ID" ->
                    /\ next_id' = replay_update_id(next_id, t.id)
                    /\ UNCHANGED <<phase, users, users_capacity, users_gen, groups,
                                   messages, login_conn>>
             [] t.op = "NEW_GROUP" ->
                    /\ groups' = Append(groups, [name |-> t.name, users |-> t.users])
                    /\ UNCHANGED <<phase, next_id, users, users_capacity, users_gen,
                                   messages, login_conn>>
        /\ UNCHANGED <<journal_file, invalid_file, connVars, envVars, reply>>

\* the iteration of the replay loop in which next_transaction fails: the
\* journal becomes invalid and the loop is left
RecoverFail ==
    /\ phase = "recovering"
    /\ has_more_transactions(journal_file, journal_pos)
    /\ ~next_transaction(journal_file, journal_pos).ok
    /\ invalid_file' = TRUE
    /\ phase' = "recovered"
    /\ UNCHANGED <<storeVars, journal_file, journal_pos, connVars, envVars, reply>>

\* a replay loop that is left before the end of the file
RecoverDone_early ==
    /\ phase = "recovering"
    /\ journal_pos' = SkipSpace(journal_file, journal_pos)
    /\ phase' = "recovered"
    /\ UNCHANGED <<storeVars, journal_file, invalid_file, connVars, envVars, reply>>

\* the end of the replay loop: has_more_transactions read up to the end of the file
RecoverDone ==
    /\ phase = "recovering"
    /\ ~has_more_transactions(journal_file, journal_pos)
    /\ journal_pos' = SkipSpace(journal_file, journal_pos)
    /\ phase' = "recovered"
    /\ UNCHANGED <<storeVars, journal_file, invalid_file, connVars, envVars, reply>>

\* ChatServer::init between the replay and the event loop: the listening socket
StartListening ==
    /\ phase = "recovered"
    /\ phase' = "running"
    /\ UNCHANGED <<storeVars, journalVars, connVars, envVars, reply>>

\* what a restart is compared on: the user names, the groups, the pending
\* direct messages and the ID counter
Summary ==
    [users |-> {users[k].name : k \in 1..Len(users)},
     groups |-> {groups[k] : k \in 1..Len(groups)},
     direct |-> {[id |-> messages[k].id,
                  sender |-> users[messages[k].sender.idx].name,
                  recipient |-> users[messages[k].recipient.idx].name,
                  content |-> messages[k].content] :
                 k \in {n \in 1..Len(messages) : messages[n].direct}},
     next_id |-> next_id]

\* the message store as a client can tell it: per message, in store order, the
\* id, the names of sender and recipient and the content
StoredMessages ==
    [k \in 1..Len(messages) |->
        [id |-> messages[k].id,
         sender |-> users[messages[k].sender.idx].name,
         recipient |-> users[messages[k].recipient.idx].name,
         content |-> messages[k].content,
         direct |-> messages[k].direct]]

\* The process ends (it is killed, or it has crashed) and a new one is started
\* on the same journal file: every static is as constructed, every connection
\* is gone.
Restart ==
    /\ restarts < MaxRestarts
    /\ restarts' = restarts + 1
    /\ prev' = [valid |-> phase = "running" /\ ~invalid_file, summary |-> Summary,
                messages |-> StoredMessages]
    /\ phase' = "recovering"
    /\ next_id' = 0
    /\ users' = <<>>
    /\ users_capacity' = INITIAL_CAPACITY
    /\ users_gen' = 0
    /\ groups' = <<>>
    /\ messages' = <<>>
    /\ login_conn' = <<>>
    /\ poll_connection_fds' = <<>>
    /\ connection_heartbeat_times' = <<>>
    /\ conn_serial' = <<>>
    /\ journal_pos' = 0
    /\ invalid_file' = FALSE
    /\ reply' = <<>>
    /\ UNCHANGED <<journal_file, now, accepts>>

\* --------------------------------------------------------- specifications
Range(f) == {f[k] : k \in DOMAIN f}

\* the state after construction, on the journal file an earlier run left
InitOn(file) ==
    /\ phase = "recovering"
    /\ next_id = 0
    /\ users = <<>>
    /\ users_capacity = INITIAL_CAPACITY
    /\ users_gen = 0
    /\ groups = <<>>
    /\ messages = <<>>
    /\ login_conn = <<>>
    /\ poll_connection_fds = <<>>
    /\ connection_heartbeat_times = <<>>
    /\ conn_serial = <<>>
    /\ journal_file = file
    /\ journal_pos = 0
    /\ invalid_file = FALSE
    /\ now = 0
    /\ reply = <<>>
    /\ accepts = 0
    /\ restarts = 0
    /\ prev = [valid |-> FALSE, summary |-> [users |-> {}, groups |-> {},
                                             direct |-> {}, next_id |-> 0],
               messages |-> <<>>]

\* no journal file yet
Init == InitOn(<<>>)

\* ---- Spec: sessions and the liveness sweep
Next ==
    \/ RecoverDone
    \/ StartListening
    \/ \E fd \in 1..MaxSessionConns : Accept(fd, MaxSessionConns)
    \/ \E i \in 1..MaxSessionConns :
        \/ \E name \in {A, B} : register_user(i, name, 0)
        \/ \E name \in {A, B} : login(i, name, 0)
        \/ \E id \in 1..MaxId : logout(i, id, 0)
        \/ goodbye(i)
        \/ heartbeat(i)
    \/ prune_dead_connections
    \/ Tick(DEAD_AFTER + 1, MaxTime)

Spec == Init /\ [][Next]_vars

\* ---- SpecAuth: the handlers that take a session id, on one user
NextAuth ==
    \/ RecoverDone
    \/ StartListening
    \/ \E fd \in Sockets : Accept(fd, MaxAccepts)
    \/ \E i \in Sockets :
        \/ \E drop \in 0..1 : register_user(i, A, drop)
        \/ \E drop \in 0..1 : login(i, A, drop)
        \/ \E id \in IdInputs, drop \in 0..1 : logout(i, id, drop)
        \/ \E id \in IdInputs, drop \in 0..2 : set_status(i, id, X, drop)
        \/ \E id \in IdInputs, drop \in 0..2 : send_message(i, id, RECIPIENT_TYPE_USER, A, X, drop)
        \/ \E id \in IdInputs, m \in 1..MaxId, drop \in 0..2 :
               delete_message(i, id, m, drop, "match")
        \/ \E id \in IdInputs, drop \in 0..1 : get_messages(i, id, drop, {}, FALSE)
        \/ \E id \in IdInputs, drop \in 0..1 : get_users(i, id, drop)
        \/ \E id \in IdInputs, drop \in 0..1 : get_groups(i, id, drop)
        \/ goodbye(i)

SpecAuth == Init /\ [][NextAuth]_vars

\* ---- SpecLive: the connection table under a clock that ticks every second.
\* A connection is accepted, or sends HEARTBEAT, only while the clock can still
\* run DEAD_AFTER seconds past it.
ClockLeft == now + DEAD_AFTER < MaxTimeLive

TickLive == Tick(1, MaxTimeLive)

\* No user is bound to a handle here, so its value carries nothing: a new
\* connection gets the lowest handle no open socket has.
LowestFree ==
    CHOOSE fd \in 1..(Len(poll_connection_fds) + 1) :
        /\ fd \notin Range(poll_connection_fds)
        /\ \A k \in 1..(fd - 1) : k \in Range(poll_connection_fds)

NextLive ==
    \/ RecoverDone
    \/ StartListening
    \/ ClockLeft /\ Accept(LowestFree, MaxAccepts)
    \/ \E i \in Sockets :
        \/ ClockLeft /\ heartbeat(i)
        \/ goodbye(i)
    \/ prune_dead_connections
    \/ TickLive

\* the event loop keeps iterating (it runs the sweep in every iteration) and
\* the clock keeps advancing
SpecLive ==
    /\ Init
    /\ [][NextLive]_vars
    /\ WF_vars(RecoverDone)
    /\ WF_vars(StartListening)
    /\ WF_vars(prune_dead_connections)
    /\ WF_vars(TickLive)

\* ---- SpecJournal: the journal over a restart, on one connection
NextJournal ==
    \/ RecoverStep
    \/ RecoverFail
    \/ RecoverDone
    \/ restarts = 0 /\ StartListening
    \/ Restart
    \/ Accept(1, 1)
    \/ \E name \in {A, AQ} : register_user(1, name, 0)
    \/ \E name \in {A, AQ} : login(1, name, 0)
    \/ \E members \in {<<A>>, <<A, A>>} : register_group(1, G, members, 0)
    \/ \E id \in 1..MaxId, type \in RecipientTypes, name \in {A, G} :
           send_message(1, id, type, name, X, 0)
    \/ \E id \in 1..MaxId, m \in 1..MaxId : delete_message(1, id, m, 0, "match")

SpecJournal == Init /\ [][NextJournal]_vars

\* ---- SpecCounter: the ID counter over a restart, on one user and one group;
\* the restarted process serves requests again
NextCounter ==
    \/ RecoverStep
    \/ RecoverDone
    \/ StartListening
    \/ Restart
    \/ Accept(1, MaxAccepts)
    \/ \E name \in {A, B} : register_user(1, name, 0)
    \/ login(1, A, 0)
    \/ \E id \in 1..MaxId : logout(1, id, 0)
    \/ \E members \in {<<A>>, <<A, B>>} : register_group(1, G, members, 0)
    \/ \E id \in 1..MaxId, type \in {RECIPIENT_TYPE_USER, RECIPIENT_TYPE_GROUP},
          name \in {A, G} :
           send_message(1, id, type, name, X, 0)

SpecCounter == Init /\ [][NextCounter]_vars

\* ---- SpecSeeded: the inbox on a store an earlier run filled with users
InitSeeded == InitOn(SeedJournal(SeedNames))

NextSeeded ==
    \/ RecoverStep
    \/ RecoverDone
    \/ StartListening
    \/ Accept(1, 1)
    \/ \E name \in {A, B}, drop \in 0..1 : register_user(1, name, drop)
    \/ \E name \in {A, B}, drop \in 0..1 : login(1, name, drop)
    \/ \E id \in 1..MaxId, drop \in 0..1 : logout(1, id, drop)
    \/ \E id \in 1..MaxId, name \in {A, B}, drop \in 0..2 :
           send_message(1, id, RECIPIENT_TYPE_USER, name, X, drop)
    \/ \E id \in 1..MaxId, m \in 1..MaxId, drop \in 0..2,
          outcome \in {"match", "differ", "crash"} :
           delete_message(1, id, m, drop, outcome)
    \/ \E id \in 1..MaxId, drop \in 0..1, stale \in SUBSET (1..MaxMessages),
          crash \in BOOLEAN :
           get_messages(1, id, drop, stale, crash)

SpecSeeded == InitSeeded /\ [][NextSeeded]_vars

\* ---- SpecSend: groups and messages on one connection, the process started on
\* no journal or on a file Journal::next_transaction cannot read
Unreadable == <<"x">>

LongContent == [k \in 1..(CHAT_MAX_MESSAGE_LENGTH + 1) |-> "x"]

OverrunContent == [k \in 1..BUFFER_SIZE |-> "x"]

InitSend == \E file \in {<<>>, Unreadable} : InitOn(file)

NextSend ==
    \/ RecoverFail
    \/ RecoverDone
    \/ StartListening
    \/ Accept(1, 1)
    \/ \E name \in {A, B} : register_user(1, name, 0)
    \/ login(1, A, 0)
    \/ register_group(1, G, <<B, A>>, 0)
    \/ \E id \in 1..MaxId, type \in {RECIPIENT_TYPE_USER, RECIPIENT_TYPE_GROUP},
          name \in {B, G}, content \in {X, LongContent, OverrunContent} :
           send_message(1, id, type, name, content, 0)

SpecSend == InitSend /\ [][NextSend]_vars

\* ---- SpecFanOut: a group of a new user and a user of the seeded store, a
\* message to the group, and the registration that makes the users vector grow
InGroup == <<A, SeedNames[1]>>

NextFanOut ==
    \/ RecoverStep
    \/ RecoverDone
    \/ StartListening
    \/ Accept(1, 1)
    \/ \E name \in {A, B} : register_user(1, name, 0)
    \/ login(1, A, 0)
    \/ register_group(1, G, InGroup, 0)
    \/ \E id \in 1..MaxId : send_message(1, id, RECIPIENT_TYPE_GROUP, G, X, 0)
    \/ \E id \in 1..MaxId, stale \in SUBSET (1..MaxMessages), crash \in BOOLEAN :
           get_messages(1, id, 0, stale, crash)

SpecFanOut == InitSeeded /\ [][NextFanOut]_vars

\* ---- SpecSession: LOGIN and LOGOUT of two users from two connections
NextSession ==
    \/ RecoverDone
    \/ StartListening
    \/ \E fd \in 1..2 : Accept(fd, 2)
    \/ \E i \in 1..2 :
        \/ \E name \in {A, B} : register_user(i, name, 0)
        \/ \E name \in {A, B} : login(i, name, 0)
        \/ \E id \in 1..MaxId : logout(i, id, 0)

SpecSession == Init /\ [][NextSession]_vars

\* ---- SpecStatus: SET_STATUS payloads of every kind, two users on one connection
LongestStatus == [k \in 1..CHAT_MAX_STATUS_LENGTH |-> "s"]

Statuses == {<<>>, X, LongestStatus, LongestStatus \o X}

NextStatus ==
    \/ RecoverDone
    \/ StartListening
    \/ Accept(1, 1)
    \/ \E name \in {A, B} : register_user(1, name, 0)
    \/ \E name \in {A, B} : login(1, name, 0)
    \/ \E id \in 1..MaxId, status \in Statuses : set_status(1, id, status, 0)

SpecStatus == Init /\ [][NextStatus]_vars

\* ---- SpecGroup: REGISTER_GROUP with member lists of known and unknown names
MemberLists == {<<A, B>>, <<B, A>>, <<A, X, B>>}

NextGroup ==
    \/ RecoverDone
    \/ StartListening
    \/ Accept(1, 1)
    \/ \E name \in {A, B} : register_user(1, name, 0)
    \/ login(1, A, 0)
    \/ \E name \in {G, X}, members \in MemberLists, drop \in 0..2 :
           register_group(1, name, members, drop)
    \/ \E id \in 1..MaxId : get_groups(1, id, 0)

SpecGroup == Init /\ [][NextGroup]_vars

\* ---- SpecGroupReplay: groups over a restart; GQ is a group name that holds
\* a double quote
GQ == <<"g", Q, SP, "1", SP, Q, "z">>

NextGroupReplay ==
    \/ RecoverStep
    \/ RecoverFail
    \/ RecoverDone
    \/ StartListening
    \/ Restart
    \/ Accept(1, MaxAccepts)
    \/ register_user(1, A, 0)
    \/ login(1, A, 0)
    \/ \E name \in {G, GQ} : register_group(1, name, <<A>>, 0)
    \/ \E id \in 1..MaxId : send_message(1, id, RECIPIENT_TYPE_GROUP, G, X, 0)

SpecGroupReplay == Init /\ [][NextGroupReplay]_vars

\* ------------------------------------------------------------ properties
\* the id was issued by a LOGIN on the connection of table entry i (the
\* connection itself, not its handle value) to a user who is still logged in
GenuineSession(i, id) ==
    \E u \in 1..Len(users) :
        /\ users[u].id = id
        /\ users[u].logged_in
        /\ login_conn[u] = conn_serial[i]

\* a request of one of the five opcodes, carrying id, whose id was read
SessionBoundRequest(i, id) ==
    \/ logout(i, id, 0)
    \/ \E drop \in {0, 2} : set_status(i, id, X, drop)
    \/ \E drop \in {0, 2} : send_message(i, id, RECIPIENT_TYPE_USER, A, X, drop)
    \/ \E m \in 1..MaxId, drop \in {0, 2} : delete_message(i, id, m, drop, "match")
    \/ get_messages(i, id, 0, {}, FALSE)

\* C1: SEND_MESSAGE, DELETE_MESSAGE, GET_MESSAGES, SET_STATUS and LOGOUT
\* authenticate session id k only on the connection whose LOGIN issued k, while
\* that user is logged in; from any other connection (a later one accepted with
\* the same handle value included) the answer is INVALID_REQUEST and nothing
\* changes.
C1_SessionOnlyOnItsConnection ==
    [][\A i \in Sockets, id \in IdInputs :
          (Handling(i) /\ ~GenuineSession(i, id) /\ SessionBoundRequest(i, id))
              => /\ Len(reply') = 2 /\ reply'[2] = INVALID_REQUEST
                 /\ UNCHANGED <<storeVars, journalVars, connVars>>]_vars

\* C2: for every user, logged_in, session id # -1 and connection # -1 are
\* equivalent in every reachable state.
C2_SessionFieldsAgree ==
    \A u \in 1..Len(users) :
        /\ users[u].logged_in <=> users[u].id # NONE
        /\ users[u].id # NONE <=> users[u].connection_fd # NONE

C6_EvictionLogsOut ==
    [][prune_dead_connections =>
          \A u \in 1..Len(users) :
              (/\ users[u].logged_in
               /\ login_conn[u] \in Range(conn_serial)
               /\ login_conn[u] \notin Range(conn_serial'))
                  => users'[u] = [users[u] EXCEPT !.logged_in = FALSE, !.id = NONE,
                                                  !.status = Offline,
                                                  !.connection_fd = NONE]]_vars

\* C8: GET_USERS and GET_GROUPS return the directory only when the id belongs to
\* a logged-in user bound to the connection the request arrived on; otherwise
\* the reply is an error status and no directory.
C8_DirectoryOnlyOnItsConnection ==
    [][\A i \in Sockets, id \in IdInputs :
          (/\ Handling(i)
           /\ ~GenuineSession(i, id)
           /\ get_users(i, id, 0) \/ get_groups(i, id, 0))
              => Len(reply') = 2 /\ reply'[2] # SUCCESS]_vars

\* C4: a fresh process that replays the journal of a server whose journal was
\* valid ends recovery with the same users, groups, pending direct messages and
\* ID counter as the live server had.
C4_ReplayEquivalence ==
    (restarts > 0 /\ prev.valid) =>
        /\ phase # "aborted"
        /\ ~invalid_file
        /\ phase = "recovered" => Summary = prev.summary

\* C5: the ID counter never decreases within a process (replayed records and
\* live allocations alike), and a restarted process ends recovery with a value
\* not less than the one the previous process last allocated.
C5_CounterNeverDecreases ==
    [][/\ restarts' = restarts => next_id' >= next_id
       /\ (restarts' > 0 /\ phase' = "recovered" /\ prev'.valid)
              => next_id' >= prev'.summary.next_id]_vars

\* C7: a connection that stops sending HEARTBEAT is eventually removed from the
\* connection table and the heartbeat table (the event loop and the clock keep
\* going), and the sweep never evicts a connection whose last heartbeat is 20
\* seconds old or less.
C7_SilentConnectionEvicted ==
    /\ \A s \in 1..MaxAccepts : (s \in Range(conn_serial)) ~> (s \notin Range(conn_serial))
    /\ [][/\ Len(poll_connection_fds') = Len(connection_heartbeat_times')
          /\ prune_dead_connections =>
                \A k \in 1..Len(conn_serial) :
                    conn_serial[k] \notin Range(conn_serial')
                        => now - connection_heartbeat_times[k] > DEAD_AFTER]_vars

\* the one connection accepted sent HEARTBEAT, sent no GOODBYE after it, and is
\* gone from the tables: the sweep evicted it
C7_EvictedBySweep ==
    /\ accepts = 1
    /\ reply = <<"HEARTBEAT", SUCCESS>>
    /\ poll_connection_fds = <<>>
    /\ connection_heartbeat_times = <<>>
    /\ now > DEAD_AFTER

\* the messages addressed to the user at index, in store order
AddressedTo(index) ==
    LET mine(k) == users[messages[k].recipient.idx].name = users[index].name
    IN  SelectSeq([k \in 1..Len(messages) |-> k], mine)

\* C9: GET_MESSAGES by an authenticated caller returns exactly the stored
\* messages whose recipient is the caller, each with id, sender name and
\* content, in store order, after their count.
C9_InboxIsExact ==
    [][\A id \in 1..MaxId :
          (/\ Handling(1)
           /\ authenticated(users, id, poll_connection_fds[1]) # NONE
           /\ \E stale \in SUBSET (1..MaxMessages), crash \in BOOLEAN :
                  get_messages(1, id, 0, stale, crash))
              => reply' = <<"GET_MESSAGES", SUCCESS>>
                              \o Inbox(messages,
                                       AddressedTo(authenticated(users, id,
                                                                 poll_connection_fds[1])))
                              \o <<SUCCESS>>]_vars

NoSharedName ==
    \A u, v \in 1..Len(users) : u # v => users[u].name # users[v].name

\* C10: REGISTER of a name a user has replies INVALID_REQUEST, appends nothing
\* to the journal and leaves the users unchanged; REGISTER of a new name
\* journals NEW_USER, adds one logged-out "Offline" user and replies SUCCESS;
\* no two users ever share a name.
C10_NamesAreUnique ==
    [][/\ \A name \in {A, AQ} :
              (Handling(1) /\ register_user(1, name, 0)) =>
                  IF find_user_index_by_name(users, name) # NONE
                  THEN /\ reply' = <<"REGISTER", INVALID_REQUEST>>
                       /\ UNCHANGED <<users, journal_file>>
                  ELSE /\ reply' = <<"REGISTER", SUCCESS>>
                       /\ users' = Append(users, ServerUser(name))
                       /\ journal_file' = journal_file \o <<NL>>
                              \o FormatTransaction([op |-> "NEW_USER", username |-> name])
       /\ NoSharedName']_vars

\* C11: LOGIN for a name no user has, or for a user who is logged in, replies
\* session id -1 and INVALID_REQUEST and changes nothing: the ID counter, the
\* journal and every user (session id, connection, status) stay as they were.
C11_RefusedLoginChangesNothing ==
    [][\A i \in 1..2, name \in {A, B} :
          (/\ Handling(i)
           /\ login(i, name, 0)
           /\ \/ \A u \in 1..Len(users) : users[u].name # name
              \/ \E u \in 1..Len(users) : users[u].name = name /\ users[u].logged_in)
              => /\ reply' = <<"LOGIN", NONE, INVALID_REQUEST>>
                 /\ UNCHANGED <<next_id, journal_file, users, connVars>>]_vars

\* a LOGIN was just refused while a user is logged in
C11_LoginRefused ==
    /\ reply = <<"LOGIN", NONE, INVALID_REQUEST>>
    /\ \E u \in 1..Len(users) : users[u].logged_in

DirectSendEffect(id, name, content) ==
    LET caller == find_user_index_by_id(users, id)
        recipient == find_user_index_by_name(users, name)
        last == messages'[Len(messages')]
    IN  /\ next_id' = next_id + 1
        /\ journal_file' = journal_file
               \o <<NL>> \o FormatTransaction([op |-> "UPDATE_ID", id |-> next_id + 1])
               \o <<NL>> \o FormatTransaction([op |-> "NEW_MESSAGE",
                                               sender |-> users[caller].name,
                                               recipient_type |-> RECIPIENT_TYPE_USER,
                                               recipient |-> name, content |-> content])
        /\ Len(messages') = Len(messages) + 1
        /\ SubSeq(messages', 1, Len(messages)) = messages
        /\ last.id = next_id + 1
        /\ last.content = content
        /\ last.sender = UserPtr(users_gen, caller)
        /\ last.recipient = UserPtr(users_gen, recipient)
        /\ users[recipient].name = name

SentDirect(id, name) ==
    /\ Handling(1)
    /\ send_message(1, id, RECIPIENT_TYPE_USER, name, X, 0)
    /\ reply' = <<"SEND_MESSAGE", SUCCESS, SUCCESS>>

FanOutEffect(id, name, content) ==
    LET caller == find_user_index_by_id(users, id)
        members == groups[find_group_index_by_name(groups, name)].users
        copy(k) == messages'[Len(messages) + k]
    IN  /\ Len(messages') = Len(messages) + Len(members)
        /\ SubSeq(messages', 1, Len(messages)) = messages
        /\ \A k \in 1..Len(members) :
              /\ users[copy(k).recipient.idx].name = members[k]
              /\ ~Dangling(copy(k).recipient)
              /\ copy(k).sender = UserPtr(users_gen, caller)
              /\ copy(k).content = content
              /\ \A l \in 1..(k - 1) : copy(l).id < copy(k).id

SentToGroup(id, name) ==
    /\ Handling(1)
    /\ send_message(1, id, RECIPIENT_TYPE_GROUP, name, X, 0)
    /\ reply' = <<"SEND_MESSAGE", SUCCESS, SUCCESS>>

\* the answer to GET_MESSAGES holds every message fanned out to the caller
HoldsCopies(index, answer) ==
    \A k \in 1..Len(messages) :
        (~messages[k].direct /\ users[messages[k].recipient.idx].name = users[index].name)
            => /\ Len(answer) = 5
               /\ \E p \in 1..answer[3] :
                     answer[4][p] = <<messages[k].id, users[messages[k].sender.idx].name,
                                      messages[k].content>>

\* C14: a successful SEND_MESSAGE to a group stores one message per member in
\* member order, the i-th addressed to the i-th member, with the caller as
\* sender, the same content and strictly increasing ids; GET_MESSAGES by a
\* member afterwards contains that member's copy.
C14_GroupSendReachesEveryMember ==
    [][/\ \A id \in 1..MaxId : SentToGroup(id, G) => FanOutEffect(id, G, X)
       /\ \A id \in 1..MaxId, stale \in SUBSET (1..MaxMessages), crash \in BOOLEAN :
             (/\ Handling(1)
              /\ get_messages(1, id, 0, stale, crash)
              /\ authenticated(users, id, poll_connection_fds[1]) # NONE)
                 => HoldsCopies(authenticated(users, id, poll_connection_fds[1]),
                                reply')]_vars

\* the storing half of C14 on its own
C14_FanOutStored ==
    [][\A id \in 1..MaxId : SentToGroup(id, G) => FanOutEffect(id, G, X)]_vars

\* the number of records of the journal text f that begin with the word w
Records(f, w) ==
    Cardinality({p \in 1..Len(f) :
                    /\ p + Len(w) - 1 <= Len(f)
                    /\ SubSeq(f, p, p + Len(w) - 1) = w})

\* C15: a successful SEND_MESSAGE to a group of n members appends to the
\* journal one NEW_MESSAGE record and n UPDATE_ID records, and advances the ID
\* counter by n.
C15_GroupSendJournalsOnePerMember ==
    [][\A id \in 1..MaxId :
          SentToGroup(id, G) =>
              LET n == Len(groups[find_group_index_by_name(groups, G)].users)
              IN  /\ Records(journal_file', KW_NEW_MESSAGE)
                        = Records(journal_file, KW_NEW_MESSAGE) + 1
                  /\ Records(journal_file', KW_UPDATE_ID)
                        = Records(journal_file, KW_UPDATE_ID) + n
                  /\ next_id' = next_id + n]_vars

\* a SEND_MESSAGE by an authenticated caller that step 6 rejects
RejectedSend(id, type, name, content) ==
    /\ Handling(1)
    /\ send_message(1, id, type, name, content, 0)
    /\ authenticated(users, id, poll_connection_fds[1]) # NONE
    /\ \/ Len(content) > CHAT_MAX_MESSAGE_LENGTH
       \/ type = RECIPIENT_TYPE_USER /\ \A u \in 1..Len(users) : users[u].name # name
       \/ type = RECIPIENT_TYPE_GROUP /\ \A g \in 1..Len(groups) : groups[g].name # name

RejectedUntouched ==
    /\ reply' = <<"SEND_MESSAGE", SUCCESS, INVALID_REQUEST>>
    /\ UNCHANGED <<messages, next_id, journal_file>>

\* C16: a SEND_MESSAGE rejected in its second phase (recipient not found in
\* the table its recipient_type selects, or content longer than 256 bytes)
\* replies INVALID_REQUEST and leaves the message store, the ID counter and
\* the journal as they were.
C16_RejectedSendChangesNothing ==
    [][\A id \in 1..MaxId, type \in {RECIPIENT_TYPE_USER, RECIPIENT_TYPE_GROUP},
          name \in {B, G}, content \in {X, LongContent, OverrunContent} :
          RejectedSend(id, type, name, content) => RejectedUntouched]_vars

\* C16 for content that fits the receive buffer
C16_RejectedSendWithinBuffer ==
    [][\A id \in 1..MaxId, type \in {RECIPIENT_TYPE_USER, RECIPIENT_TYPE_GROUP},
          name \in {B, G}, content \in {X, LongContent} :
          RejectedSend(id, type, name, content) => RejectedUntouched]_vars

\* C17: SET_STATUS by an authenticated caller with a payload of length 0 or
\* above 32 replies INVALID_REQUEST and leaves the caller's status as it was;
\* with a payload of length 1..32 it sets the caller's status to the payload
\* and replies SUCCESS. Either way no other user, no session field of the
\* caller, the ID counter and the journal do not change.
C17_SetStatus ==
    [][\A id \in 1..MaxId, status \in Statuses :
          LET index == authenticated(users, id, poll_connection_fds[1])
          IN  (Handling(1) /\ set_status(1, id, status, 0) /\ index # NONE)
                  => /\ IF Len(status) = 0 \/ Len(status) > 32
                        THEN /\ reply' = <<"SET_STATUS", SUCCESS, INVALID_REQUEST>>
                             /\ users' = users
                        ELSE /\ reply' = <<"SET_STATUS", SUCCESS, SUCCESS>>
                             /\ users' = [users EXCEPT ![index].status = status]
                     /\ UNCHANGED <<next_id, journal_file, groups, messages, connVars>>]_vars

\* a 32-byte status was set, and a later SET_STATUS was refused
C17_StatusKept ==
    /\ reply = <<"SET_STATUS", SUCCESS, INVALID_REQUEST>>
    /\ \E u \in 1..Len(users) : users[u].status = LongestStatus

GroupsOnlyAdded ==
    /\ \A name \in {G, GQ, X} :
          (/\ Handling(1)
           /\ \E members \in MemberLists \cup {<<A>>} : register_group(1, name, members, 0)
           /\ \E g \in 1..Len(groups) : groups[g].name = name)
              => /\ reply' = <<"REGISTER_GROUP", INVALID_REQUEST>>
                 /\ UNCHANGED <<groups, journal_file>>
    /\ restarts' = restarts
          => /\ Len(groups') >= Len(groups)
             /\ SubSeq(groups', 1, Len(groups)) = groups

\* C19: REGISTER_GROUP with the name of an existing group replies
\* INVALID_REQUEST right after the name is read, adds no group and journals
\* nothing; in every reachable state no two groups share a name; the member
\* sequence of a group is never changed.
C19_GroupNamesUnique ==
    /\ [](\A g, h \in 1..Len(groups) : groups[g].name = groups[h].name => g = h)
    /\ [][GroupsOnlyAdded]_vars

\* the part of C19 about a running process
C19_DuplicateRefusedLive == [][GroupsOnlyAdded]_vars

\* C20: in every reachable state every member name of every stored group is
\* the name of a user, and neither assert of the group fan-out (in
\* send_message, in the replay) has fired.
C20_MembersResolve ==
    /\ \A g \in 1..Len(groups) : \A k \in 1..Len(groups[g].users) :
          \E u \in 1..Len(users) : users[u].name = groups[g].users[k]
    /\ phase \notin {"crashed", "aborted"}

\* C20 for a process that started on an empty journal
C20_MembersResolveFirstRun == restarts = 0 => C20_MembersResolve

\* a DELETE_MESSAGE of message_id by session id whose two reads arrived
Deleting(id, message_id) ==
    /\ Handling(1)
    /\ \E outcome \in {"match", "differ", "crash"} : delete_message(1, id, message_id, 0, outcome)
    /\ authenticated(users, id, poll_connection_fds[1]) # NONE

\* the message the id designates is addressed to somebody else than the caller
NotTheRecipient(id, message_id) ==
    LET user_index == authenticated(users, id, poll_connection_fds[1])
        message_index == find_message_index_by_id(messages, message_id)
    IN  /\ message_index # NONE
        /\ users[messages[message_index].recipient.idx].name # users[user_index].name

DeleteRefused(id, message_id) ==
    /\ NotTheRecipient(id, message_id) =>
          /\ reply' = <<"DELETE_MESSAGE", SUCCESS, UNAUTHORIZED>>
          /\ UNCHANGED <<messages, journal_file, next_id>>
    /\ find_message_index_by_id(messages, message_id) = NONE =>
          /\ reply' = <<"DELETE_MESSAGE", SUCCESS, INVALID_REQUEST>>
          /\ UNCHANGED <<storeVars, journalVars, connVars>>

\* C21: DELETE_MESSAGE by an authenticated user who is not the recipient of
\* the message replies UNAUTHORIZED, the message stays and nothing is
\* journaled; DELETE_MESSAGE of an id no stored message has replies
\* INVALID_REQUEST and changes nothing.
C21_OnlyRecipientDeletes ==
    [][\A id \in 1..MaxId, m \in 1..MaxId :
          Deleting(id, m) => DeleteRefused(id, m)]_vars

\* C21 while the users vector has not been reallocated since the message was stored
C21_OnlyRecipientDeletesSameAllocation ==
    [][\A id \in 1..MaxId, m \in 1..MaxId :
          (/\ Deleting(id, m)
           /\ \A k \in 1..Len(messages) : ~Dangling(messages[k].recipient))
              => DeleteRefused(id, m)]_vars

\* the message the id designates is addressed to the caller
TheRecipient(id, message_id) ==
    LET user_index == authenticated(users, id, poll_connection_fds[1])
        message_index == find_message_index_by_id(messages, message_id)
    IN  /\ message_index # NONE
        /\ users[messages[message_index].recipient.idx].name = users[user_index].name

\* the effect of a granted DELETE_MESSAGE: the record is committed, exactly the
\* designated message leaves the store, the id is no longer found
DeleteEffect(message_id) ==
    LET message_index == find_message_index_by_id(messages, message_id)
    IN  /\ reply' = <<"DELETE_MESSAGE", SUCCESS, SUCCESS>>
        /\ messages' = Remove(messages, message_index)
        /\ find_message_index_by_id(messages', message_id) = NONE
        /\ journal_file' = commit_transaction(J, [op |-> "DELETE_MESSAGE",
                                                  id |-> message_id]).file
        /\ UNCHANGED <<next_id, users, groups>>

\* C22: a DELETE_MESSAGE by the recipient of the message journals
\* DELETE_MESSAGE(id), removes exactly that message from the store, leaves every
\* other message as it was and replies SUCCESS; the id is not found afterwards.
C22_RecipientDeletes ==
    [][\A id \in 1..MaxId, m \in 1..MaxId :
          (Deleting(id, m) /\ TheRecipient(id, m)) => DeleteEffect(m)]_vars

\* C22 while the users vector has not been reallocated since the message was stored
C22_RecipientDeletesSameAllocation ==
    [][\A id \in 1..MaxId, m \in 1..MaxId :
          (/\ Deleting(id, m)
           /\ TheRecipient(id, m)
           /\ ~Dangling(messages[find_message_index_by_id(messages, m)].recipient))
              => DeleteEffect(m)]_vars

\* ---- SpecDelete: messages sent and deleted on one connection, over a
\* restart after which the process serves requests again
NextDelete ==
    \/ RecoverStep
    \/ RecoverFail
    \/ RecoverDone
    \/ StartListening
    \/ Restart
    \/ Accept(1, MaxAccepts)
    \/ \E name \in {A, AQ} : register_user(1, name, 0)
    \/ login(1, A, 0)
    \/ \E id \in 1..MaxId : send_message(1, id, RECIPIENT_TYPE_USER, A, X, 0)
    \/ \E id \in 1..MaxId, m \in 1..MaxId : delete_message(1, id, m, 0, "match")

SpecDelete == Init /\ [][NextDelete]_vars

\* the journal text f holds the record DELETE_MESSAGE m
DeleteJournaled(f, m) ==
    LET w == KW_DELETE_MESSAGE \o <<SP>> \o FormatU32(m)
    IN  \E p \in 1..Len(f) :
            /\ p + Len(w) - 1 <= Len(f)
            /\ SubSeq(f, p, p + Len(w) - 1) = w
            /\ (p + Len(w) <= Len(f) => ~isdigit(f[p + Len(w)]))

\* C23: an id whose DELETE_MESSAGE record is in the journal is the id of no
\* stored message of a serving process, in the run that deleted it and in
\* every run that recovered from the journal.
C23_DeletedIdStaysDeleted ==
    phase = "running" =>
        \A m \in 1..MaxId :
            DeleteJournaled(journal_file, m) => find_message_index_by_id(messages, m) = NONE

\* C23 for the processes whose replay read the whole journal
C23_DeletedIdStaysDeletedOnReadableJournal ==
    (phase = "running" /\ ~invalid_file) =>
        \A m \in 1..MaxId :
            DeleteJournaled(journal_file, m) => find_message_index_by_id(messages, m) = NONE

\* ---- SpecInvalid: a process started on the journal a run left that
\* registered a and then b" (b, double quote): the replay reads two users and
\* fails on the stray quote
BQ == <<"b", Q>>

InitInvalid == InitOn(SeedJournal(<<A, BQ>>))

NextInvalid ==
    \/ RecoverStep
    \/ RecoverFail
    \/ StartListening
    \/ Accept(1, 1)
    \/ \E name \in {A, X} : register_user(1, name, 0)
    \/ \E name \in {A, B} : login(1, name, 0)
    \/ \E id \in 1..MaxId : logout(1, id, 0)
    \/ register_group(1, G, <<A, B>>, 0)
    \/ \E id \in 1..MaxId, type \in {RECIPIENT_TYPE_USER, RECIPIENT_TYPE_GROUP},
          name \in {B, G} :
           send_message(1, id, type, name, X, 0)
    \/ \E id \in 1..MaxId, m \in 1..MaxId : delete_message(1, id, m, 0, "match")

SpecInvalid == InitInvalid /\ [][NextInvalid]_vars

\* Journal::has_more_transactions as its callers see it: false on an invalid file
Journal_has_more_transactions(j) ==
    IF j.invalid THEN FALSE ELSE has_more_transactions(j.file, j.pos)

\* Journal::next_transaction as its callers see it: nullptr on an invalid file
Journal_next_transaction(j) ==
    IF j.invalid THEN Fail ELSE next_transaction(j.file, j.pos)

\* the transactions the handlers commit
SomeTransactions ==
    {[op |-> "NEW_USER", username |-> A], [op |-> "UPDATE_ID", id |-> 1],
     [op |-> "DELETE_MESSAGE", id |-> 1],
     [op |-> "NEW_MESSAGE", sender |-> A, recipient_type |-> RECIPIENT_TYPE_USER,
      recipient |-> A, content |-> X],
     [op |-> "NEW_GROUP", name |-> G, users |-> <<A>>]}

\* C24: once next_transaction has met a format error the journal stays invalid
\* for the rest of the process: has_more_transactions is false, next_transaction
\* gives nothing, commit_transaction writes nothing and the file is never
\* written again; the failed read leaves the recovered store as it is and the
\* process passes on to serving requests.
C24_InvalidJournalIsTerminal ==
    /\ [](invalid_file =>
             /\ ~Journal_has_more_transactions(J)
             /\ ~Journal_next_transaction(J).ok
             /\ \A t \in SomeTransactions : commit_transaction(J, t) = J
             /\ phase \in {"recovered", "running"})
    /\ [][(invalid_file /\ restarts' = restarts) =>
              /\ invalid_file'
              /\ journal_file' = journal_file
              /\ journal_pos' = journal_pos]_vars
    /\ [][RecoverFail => (invalid_file' /\ UNCHANGED storeVars)]_vars

\* a process whose replay failed has stored a message it was sent
C24_ServingWithoutJournal ==
    /\ invalid_file
    /\ phase = "running"
    /\ reply = <<"SEND_MESSAGE", SUCCESS, SUCCESS>>
    /\ Len(users) = 2
    /\ Len(messages) = 1

\* C25: the replay of a journal the server wrote never trips one of its
\* assertions: every NEW_MESSAGE sender, recipient, group and member resolves
\* and every DELETE_MESSAGE id is the id of a message present at that point.
C25_RecoveryNeverAborts == phase # "aborted"

\* ---- SpecEof: the peer closes while the handler waits for the name: recv
\* returns 0 and the handler has received the empty string
EndOfFile == <<>>

NextEof ==
    \/ RecoverDone
    \/ StartListening
    \/ Accept(1, MaxAccepts)
    \/ goodbye(1)
    \/ \E name \in {EndOfFile, A}, drop \in 0..1 : register_user(1, name, drop)
    \/ \E name \in {EndOfFile, A}, drop \in 0..1 : login(1, name, drop)
    \/ \E id \in 1..MaxId, drop \in 0..1 : logout(1, id, drop)

SpecEof == Init /\ [][NextEof]_vars

\* the handler stopped at its read: nothing was sent, nothing was changed
AbortedAtRead ==
    /\ Len(reply') = 1
    /\ UNCHANGED <<storeVars, journalVars>>

\* C26: a handler whose read meets a timeout or an end-of-file sends no
\* further response and leaves the users, groups, messages, ID counter and
\* journal as they were; a REGISTER or LOGIN whose name read returns
\* end-of-file creates no user and no session.
C26_DroppedReadAborts ==
    [][/\ (Handling(1) /\ (register_user(1, A, 1) \/ login(1, A, 1))) => AbortedAtRead
       /\ (Handling(1) /\ (register_user(1, EndOfFile, 0) \/ login(1, EndOfFile, 0)))
              => AbortedAtRead]_vars

\* C26 for the reads that time out
C26_TimedOutReadAborts ==
    [][(Handling(1) /\ (register_user(1, A, 1) \/ login(1, A, 1))) => AbortedAtRead]_vars

\* what a handler sent when it granted a REGISTER, REGISTER_GROUP, LOGIN,
\* SEND_MESSAGE or DELETE_MESSAGE
Granted(r) ==
    \/ r = <<"REGISTER", SUCCESS>>
    \/ r = <<"REGISTER_GROUP", SUCCESS, SUCCESS>>
    \/ \E id \in 1..(MaxId + 1) : r = <<"LOGIN", id, SUCCESS>>
    \/ r = <<"SEND_MESSAGE", SUCCESS, SUCCESS>>
    \/ r = <<"DELETE_MESSAGE", SUCCESS, SUCCESS>>

\* the journal, the ID counter, the registered names, the groups and the
\* messages are as they were
StoreKept ==
    /\ UNCHANGED <<journal_file, next_id, groups, messages>>
    /\ Len(users') = Len(users)
    /\ \A k \in 1..Len(users) : users'[k].name = users[k].name

\* C27: only a granted REGISTER, REGISTER_GROUP, LOGIN, SEND_MESSAGE or
\* DELETE_MESSAGE appends to the journal; the liveness sweep and every request
\* that was not granted one of these leave the journal, the ID counter, the
\* registered users, the groups and the messages as they were.
C27_OnlyGrantedRequestsWrite ==
    [][/\ journal_file' # journal_file => Granted(reply')
       /\ (phase = "running" /\ restarts' = restarts /\ ~Granted(reply')) => StoreKept
       /\ prune_dead_connections => StoreKept]_vars

\* C27 for requests whose payloads fit the receive buffer
C27_OnlyGrantedRequestsWriteWithinBuffer ==
    [][/\ journal_file' # journal_file => Granted(reply')
       /\ (/\ phase = "running" /\ restarts' = restarts /\ ~Granted(reply')
           /\ ~\E id \in 1..MaxId, type \in {RECIPIENT_TYPE_USER, RECIPIENT_TYPE_GROUP},
                 name \in {B, G} : send_message(1, id, type, name, OverrunContent, 0))
              => StoreKept
       /\ prune_dead_connections => StoreKept]_vars

\* C28: when prune_dead_connections returns, no connection of the table has a
\* last heartbeat more than 20 seconds older than the clock the sweep read.
C28_SweepIsComplete ==
    [][prune_dead_connections =>
          \A k \in 1..Len(connection_heartbeat_times') :
              ~is_dead(now, connection_heartbeat_times'[k])]_vars

\* C28 for sweeps in which no two expired connections are neighbours in the table
C28_SweepIsCompleteApart ==
    [][(/\ prune_dead_connections
        /\ \A k \in 1..(Len(connection_heartbeat_times) - 1) :
              ~(/\ is_dead(now, connection_heartbeat_times[k])
                /\ is_dead(now, connection_heartbeat_times[k + 1])))
          => \A k \in 1..Len(connection_heartbeat_times') :
                 ~is_dead(now, connection_heartbeat_times'[k])]_vars

\* ---- SpecDispatch: one iteration of the event loop on connections that
\* send HEARTBEAT or GOODBYE
\* the walk of the dispatch loop from index i (1-based) on s = [c, revents,
\* served, reply]: c the connection tables, revents the readable flag the poll
\* left in each pollfd, served the connections whose opcode was read, in order.
\* bye is the set of connections that send GOODBYE, the others send HEARTBEAT.
\* goodbye removes entry i (the pollfd with its revents); the walk goes on at i + 1.
RECURSIVE dispatch_loop(_, _, _, _)
dispatch_loop(s, i, bye, t) ==
    IF i > Len(s.c.fds) THEN s
    ELSE IF ~s.revents[i] THEN dispatch_loop(s, i + 1, bye, t)
    ELSE IF s.c.serials[i] \in bye
    THEN dispatch_loop([c |-> goodbye_tables(s.c, s.c.fds[i]),
                        revents |-> Remove(s.revents, i),
                        served |-> Append(s.served, s.c.serials[i]),
                        reply |-> <<"GOODBYE">>], i + 1, bye, t)
    ELSE dispatch_loop([c |-> [s.c EXCEPT !.times[i] = t],
                        revents |-> s.revents,
                        served |-> Append(s.served, s.c.serials[i]),
                        reply |-> <<"HEARTBEAT", SUCCESS>>], i + 1, bye, t)

\* the state of the walk after WSAPoll reported the entries of ready readable
Polled(ready) ==
    [c |-> Tables,
     revents |-> [k \in 1..Len(poll_connection_fds) |-> k \in ready],
     served |-> <<>>, reply |-> reply]

\* the part of an iteration of the event loop that serves the clients: the
\* poll reports the table entries of ready readable (poll_result > 0)
dispatch(ready, bye) ==
    LET s == dispatch_loop(Polled(ready), 1, bye, now)
    IN  /\ phase = "running"
        /\ ready # {}
        /\ ready \subseteq 1..Len(poll_connection_fds)
        /\ bye \subseteq {conn_serial[k] : k \in ready}
        /\ SetTables(s.c)
        /\ reply' = s.reply
        /\ UNCHANGED <<phase, storeVars, journalVars, envVars>>

NextDispatch ==
    \/ RecoverDone
    \/ StartListening
    \/ ClockLeft /\ Accept(LowestFree, MaxAccepts)
    \/ \E ready \in SUBSET Sockets, bye \in SUBSET (1..MaxAccepts) : dispatch(ready, bye)
    \/ prune_dead_connections
    \/ TickLive

SpecDispatch == Init /\ [][NextDispatch]_vars

\* C29: in an iteration of the dispatcher every connection the poll reported
\* readable has exactly one opcode read and dispatched, and no connection has
\* more than one, also when a connection served earlier in the iteration sent
\* GOODBYE.
C29_EveryReadableConnectionServed ==
    [][\A ready \in SUBSET Sockets, bye \in SUBSET (1..MaxAccepts) :
          dispatch(ready, bye) =>
              LET served == dispatch_loop(Polled(ready), 1, bye, now).served
              IN  /\ \A k \in ready : \E n \in 1..Len(served) : served[n] = conn_serial[k]
                  /\ \A m, n \in 1..Len(served) : served[m] = served[n] => m = n]_vars

\* C29 for the iterations in which no connection sends GOODBYE
C29_EveryReadableConnectionServedNoGoodbye ==
    [][\A ready \in SUBSET Sockets :
          dispatch(ready, {}) =>
              LET served == dispatch_loop(Polled(ready), 1, {}, now).served
              IN  /\ \A k \in ready : \E n \in 1..Len(served) : served[n] = conn_serial[k]
                  /\ \A m, n \in 1..Len(served) : served[m] = served[n] => m = n]_vars

\* C30: every user with logged_in = true is bound to a connection that is in
\* the connection table; after a GOODBYE without LOGOUT no user remains logged
\* in on the closed connection.
C30_LoggedInUsersAreConnected ==
    \A u \in 1..Len(users) :
        users[u].logged_in =>
            \E k \in 1..Len(poll_connection_fds) :
                /\ poll_connection_fds[k] = users[u].connection_fd
                /\ conn_serial[k] = login_conn[u]

\* C31: at most one logged-in user is bound to any connection: a connection
\* on which a user is logged in completes no LOGIN for a second user without
\* a LOGOUT in between.
C31_OneUserPerConnection ==
    \A u, v \in 1..Len(users) :
        (/\ u # v
         /\ users[u].logged_in
         /\ users[v].logged_in) => login_conn[u] # login_conn[v]

\* ---- SpecFanReplay: group sends and deletes of fan-out copies on one
\* connection, then a restart that replays them
NextFanReplay ==
    \/ RecoverStep
    \/ RecoverDone
    \/ StartListening
    \/ Restart
    \/ Accept(1, 1)
    \/ \E name \in {A, B} : register_user(1, name, 0)
    \/ \E name \in {A, B} : login(1, name, 0)
    \/ \E members \in {<<A, B>>, <<B, A>>, <<A, A>>} : register_group(1, G, members, 0)
    \/ \E id \in 1..MaxId : send_message(1, id, RECIPIENT_TYPE_GROUP, G, X, 0)
    \/ \E id \in 1..MaxId, m \in 1..(MaxId + 1) : delete_message(1, id, m, 0, "match")

SpecFanReplay == Init /\ [][NextFanReplay]_vars

C33_ReplayKeepsEveryStoredMessage ==
    (restarts > 0 /\ prev.valid /\ phase = "recovered" /\ ~invalid_file) =>
        StoredMessages = prev.messages

\* ---- SpecHeartbeat: two connections that send HEARTBEAT and other requests
\* while the clock runs
NextHeartbeat ==
    \/ RecoverDone
    \/ StartListening
    \/ \E fd \in 1..2 : Accept(fd, 2)
    \/ \E i \in 1..2 :
        \/ heartbeat(i)
        \/ register_user(i, A, 0)
        \/ login(i, A, 0)
        \/ get_users(i, 1, 0)
    \/ prune_dead_connections
    \/ \E d \in {DEAD_AFTER \div 2, DEAD_AFTER \div 2 + 1} : Tick(d, MaxTime)

SpecHeartbeat == Init /\ [][NextHeartbeat]_vars

\* a request other than HEARTBEAT served on table entry i
OtherRequest(i) ==
    \/ register_user(i, A, 0)
    \/ login(i, A, 0)
    \/ get_users(i, 1, 0)

\* C34: HEARTBEAT sets the timestamp of its connection to the current time,
\* replies SUCCESS and leaves every other timestamp; no other request changes
\* a timestamp, and the sweep removes a connection whose timestamp is more
\* than 20 seconds old whatever other requests it has sent.
C34_OnlyHeartbeatRefreshes ==
    [][/\ \A i \in 1..2 :
             (Handling(i) /\ heartbeat(i)) =>
                 /\ connection_heartbeat_times'
                        = [connection_heartbeat_times EXCEPT ![i] = now]
                 /\ reply' = <<"HEARTBEAT", SUCCESS>>
       /\ \A i \in 1..2 :
             (Handling(i) /\ OtherRequest(i)) => UNCHANGED connection_heartbeat_times
       /\ (/\ prune_dead_connections
           /\ connection_heartbeat_times # <<>>
           /\ is_dead(now, connection_heartbeat_times[1]))
              => \A k \in 1..Len(conn_serial') : conn_serial'[k] # conn_serial[1]]_vars

\* the second connection has sent HEARTBEAT later than the first was accepted
C34_SecondConnectionRefreshed ==
    /\ reply = <<"HEARTBEAT", SUCCESS>>
    /\ Len(connection_heartbeat_times) = 2
    /\ connection_heartbeat_times[2] = now
    /\ connection_heartbeat_times[1] < now

\* ---- SpecClose: two connections that send requests that are refused,
\* requests cut short, opcodes outside the switch, and GOODBYE
\* the dispatch loop on an opcode byte that matches no case of the switch
unknown_opcode(i) ==
    /\ Handling(i)
    /\ reply' = <<"UNKNOWN">>
    /\ UNCHANGED <<phase, storeVars, journalVars, connVars, envVars>>

\* the dispatch loop with a failed opcode read that closes the connection
opcode_dropped_and_closed(i) ==
    /\ Handling(i)
    /\ SetTables(goodbye_tables(Tables, poll_connection_fds[i]))
    /\ reply' = <<"DROPPED">>
    /\ UNCHANGED <<phase, storeVars, journalVars, envVars>>

\* the dispatch loop when the read of the opcode fails: continue
opcode_dropped(i) ==
    /\ Handling(i)
    /\ reply' = <<"DROPPED">>
    /\ UNCHANGED <<phase, storeVars, journalVars, connVars, envVars>>

NextClose ==
    \/ RecoverDone
    \/ StartListening
    \/ \E fd \in 1..2 : Accept(fd, 2)
    \/ \E i \in 1..2 :
        \/ \E drop \in 0..1 : register_user(i, A, drop)
        \/ \E name \in {A, B}, drop \in 0..1 : login(i, name, drop)
        \/ \E id \in 1..2, drop \in 0..1 : logout(i, id, drop)
        \/ \E id \in 1..2, drop \in 0..2 : send_message(i, id, RECIPIENT_TYPE_USER, B, X, drop)
        \/ \E id \in 1..2, drop \in 0..2 : delete_message(i, id, 1, drop, "match")
        \/ unknown_opcode(i)
        \/ opcode_dropped(i)
        \/ goodbye(i)
        \/ heartbeat(i)
    \/ prune_dead_connections
    \/ \E d \in {DEAD_AFTER \div 2 + 1, DEAD_AFTER + 1} : Tick(d, MaxTime)

SpecClose == Init /\ [][NextClose]_vars

C36_TablesStayParallel ==
    /\ [](/\ Len(connection_heartbeat_times) = Len(poll_connection_fds)
          /\ Len(conn_serial) = Len(poll_connection_fds)
          /\ \A k, n \in 1..Len(poll_connection_fds) :
                k # n => /\ poll_connection_fds[k] # poll_connection_fds[n]
                         /\ conn_serial[k] # conn_serial[n])
    /\ [][/\ \A k \in 1..Len(conn_serial), n \in 1..Len(conn_serial') :
                conn_serial'[n] = conn_serial[k] =>
                    /\ poll_connection_fds'[n] = poll_connection_fds[k]
                    /\ \/ connection_heartbeat_times'[n] = connection_heartbeat_times[k]
                       \/ /\ Handling(k) /\ heartbeat(k)
                          /\ connection_heartbeat_times'[n] = now
          /\ \A fd \in 1..2 : Accept(fd, 2) =>
                /\ poll_connection_fds' = Append(poll_connection_fds, fd)
                /\ connection_heartbeat_times' = Append(connection_heartbeat_times, now)]_vars

\* the first of two connections accepted at different times has gone and the
\* second is entry 1 of both tables with the time of its own accept
C36_SecondConnectionMovedUp ==
    /\ accepts = 2
    /\ conn_serial = <<2>>
    /\ Len(poll_connection_fds) = 1
    /\ connection_heartbeat_times = <<now>>
    /\ now > 0
    /\ reply = <<"GOODBYE">>

\* ---- SpecCommit: a server that registers, sends and deletes, is restarted
\* and serves again on the journal it wrote
NextCommit ==
    \/ RecoverStep
    \/ RecoverFail
    \/ RecoverDone
    \/ StartListening
    \/ Restart
    \/ Accept(1, 2)
    \/ \E name \in {A, AQ} : register_user(1, name, 0)
    \/ login(1, A, 0)
    \/ \E id \in 1..MaxId : send_message(1, id, RECIPIENT_TYPE_USER, A, X, 0)
    \/ \E id \in 1..MaxId, m \in 1..2 : delete_message(1, id, m, 0, "match")

SpecCommit == Init /\ [][NextCommit]_vars

C38_MessageIdsUnique ==
    \A k, n \in 1..Len(messages) : k # n => messages[k].id # messages[n].id

\* ---- SpecOffline: two connections that register, log in and out, set a
\* status, leave or fall silent, and a restart
NextOffline ==
    \/ RecoverStep
    \/ RecoverDone
    \/ StartListening
    \/ Restart
    \/ Accept(accepts + 1, 2)
    \/ \E name \in {A, B} : register_user(1, name, 0)
    \/ \E i \in 1..2 :
        \/ \E name \in {A, B} : login(i, name, 0)
        \/ \E id \in 1..2 : logout(i, id, 0)
        \/ \E id \in 1..2 : set_status(i, id, X, 0)
        \/ goodbye(i)
    \/ prune_dead_connections
    \/ Tick(DEAD_AFTER + 1, MaxTime)

SpecOffline == Init /\ [][NextOffline]_vars

\* C39: every user who is not logged in has the status "Offline"; a status
\* changes only for a user who is logged in afterwards (LOGIN, which sets
\* "Online", or SET_STATUS by the user logged in) or to "Offline" for a user
\* who is logged out afterwards (LOGOUT, eviction).
C39_LoggedOutIsOffline ==
    /\ [](\A u \in 1..Len(users) : ~users[u].logged_in => users[u].status = Offline)
    /\ [][\A u \in 1..Len(users) :
            (u <= Len(users') /\ users'[u].status # users[u].status) =>
                \/ /\ ~users[u].logged_in /\ users'[u].logged_in
                   /\ users'[u].status = Online
                   /\ reply' = <<"LOGIN", users'[u].id, SUCCESS>>
                \/ /\ users[u].logged_in /\ users'[u].logged_in
                   /\ reply' = <<"SET_STATUS", SUCCESS, SUCCESS>>
                \/ /\ users[u].logged_in /\ ~users'[u].logged_in
                   /\ users'[u].status = Offline]_vars

\* a user who had set a status of their own was evicted and is "Offline"
C39_EvictedWithOwnStatus ==
    /\ phase = "running"
    /\ poll_connection_fds = <<>>
    /\ now > DEAD_AFTER
    /\ reply = <<"SET_STATUS", SUCCESS, SUCCESS>>
    /\ \E u \in 1..Len(users) : ~users[u].logged_in /\ users[u].status = Offline
====
